---- MODULE Spec2Model ----
(***************************************************************************)
(* A model of tach-core: the supervisor's scheduler (src/src/scheduler.rs), *)
(* the signal thread (src/src/signals.rs), the cleanup guard                *)
(* (src/src/lifecycle.rs), the session driver (src/src/main.rs), the zygote *)
(* fork server and its workers (src/src/zygote.rs) and the isolation jail   *)
(* (src/src/isolation.rs).                                                  *)
(*                                                                         *)
(* Time is counted in whole seconds.  Every timer of the code is kept as an *)
(* elapsed count that saturates just past the threshold it is compared      *)
(* with, so the state space is finite although time never stops.            *)
(***************************************************************************)
EXTENDS Integers, Sequences, FiniteSets, TLC

(* ------------------------------------------------------------------ *)
(* Bounds of the model                                                 *)
(* ------------------------------------------------------------------ *)

\* The largest number of tests handed to Scheduler::run.
MaxTests == 3

\* The largest number of log slots (= max_workers) of a session.
MaxSlots == 2

(* ------------------------------------------------------------------ *)
(* Program constants                                                   *)
(* ------------------------------------------------------------------ *)

\* result_socket.set_read_timeout(Some(Duration::from_secs(5)))
READ_TIMEOUT_SECS == 5

\* self.get_stale_workers(Duration::from_secs(3))
STALE_SECS == 3

\* let deadline = Instant::now() + Duration::from_secs(10)
GRACE_SECS == 10

STATUS_PASS == 0

STATUS_FAIL == 1

STATUS_SKIP == 2

STATUS_CRASH == 3

STATUS_ERROR == 4

STATUS_HARNESS_ERROR == 5

\* The statuses a worker's harness reports in this model's runs.
ResultStatuses == {STATUS_PASS, STATUS_FAIL, STATUS_SKIP}

TestIds == 0 .. (MaxTests - 1)

SlotIds == 0 .. (MaxSlots - 1)

Min(a, b) == IF a < b THEN a ELSE b

Max(a, b) == IF a < b THEN b ELSE a

(* ------------------------------------------------------------------ *)
(* State                                                               *)
(* ------------------------------------------------------------------ *)

VARIABLES
    \* --- Scheduler::run (scheduler.rs) ---
    pc,                 \* where Scheduler::run stands
    total,              \* tests.len()
    max_workers,        \* self.max_workers = log_capture.slot_count()
    next_test,          \* tests 0..next_test-1 went through lines 83-109 (dispatched)
    passed,
    failed,
    collected,
    active_workers,     \* HashMap<u32, ActiveWorker>: test_id -> [test_name, slot, age]
    read_elapsed,       \* seconds spent in the current blocking read of result_socket
    grace_elapsed,      \* seconds since `deadline` was computed (line 113)
    events,             \* the reporter calls made so far, in order
    forks_sent,         \* FORK commands written on the command socket
    \* --- the fleet as the scheduler sees it ---
    result_socket,      \* frames relayed by the zygote and not yet read
    worker,             \* test_id -> "none" | "running" | "exited" | "crashed"
    zygote_alive,
    log_slots,          \* slot -> set of test ids whose output is in the memfd
    \* --- signals.rs / lifecycle.rs globals ---
    SHUTDOWN_REQUESTED,
    IS_DEBUGGING,
    \* --- CleanupGuard (lifecycle.rs) ---
    worker_pids,        \* Vec<i32>
    socket_paths,       \* Vec<PathBuf>
    zygote_pid,         \* Option<i32>: 0 is None
    kill_log,           \* signals and unlinks issued by the guard, in order
    \* --- the process tree: supervisor -> zygote -> workers ---
    proc,               \* process -> "unborn" | "alive" | "dead"
    proc_pc,            \* process -> where it stands in its code
    pdeathsig,          \* process -> has PR_SET_PDEATHSIG been set
    sigkill_pending,    \* processes the kernel has queued a SIGKILL for
    \* --- one session: execute_session / run_tests (main.rs) ---
    sup_pc,             \* where the supervisor stands in run_tests
    zyg,                \* "none" | "booting" | "serving" | "exited" | "killed"
    cmd_to_sup,         \* command socket, bytes from the zygote not yet read
    cmd_to_zyg,         \* command socket, bytes to the zygote not yet read
    zyg_waited,         \* waitpid(zygote_pid) has returned Ok
    session_result,     \* "none" | "ok" | "err": what run_tests returns
    sess_worker,        \* per test id: "unborn" | "alive" | "gone"
    \* --- one worker after fork (zygote.rs worker branch, isolation.rs) ---
    w_pc,               \* where the worker stands in its branch
    w_test_id,          \* payload.test_id
    w_log_fd,           \* payload.log_fd, -1 when there is no log slot
    jail_done,          \* the jail steps that have succeeded, in order
    jail_result,        \* "pending" | "ok" | "err": what setup_filesystem returned
    w_redirected,       \* stdout/stderr point to the log buffer
    test_ran,           \* run_worker has been called
    frame_written,      \* a result frame went to the worker's result socket
    w_exited,           \* the worker process has exited
    w_status,           \* its exit status, once exited
    \* --- the environment every process of the session inherits ---
    TACH_NO_ISOLATION,  \* the variable is set to "1"
    \* --- the command socket between Scheduler and zygote loop ---
    sp_pc,              \* supervisor: "wait_ready" | "dispatch" | "await_pid" | "done" | "failed"
    sp_total,           \* tests to dispatch
    sp_next,            \* test id of the next dispatch_test
    zp_pc,              \* zygote: "boot" | "loop" | "exited"
    sock_down,          \* commands written by the supervisor, not yet read
    sock_up,            \* bytes written by the zygote, not yet read
    ready_writes,       \* times the zygote wrote MSG_READY
    cmds_read,          \* commands the zygote has read
    forks_read,         \* FORK commands the zygote has read
    pid_writes,         \* pid replies the zygote has written
    pid_reads,          \* what dispatch_test read: [test_id, pid] in order
    \* --- one worker in the snapshot handshake, and the snapshot service ---
    snap_pc,            \* worker: where it stands (init_snapshot_mode, test, reset)
    stopped,            \* the worker is stopped by SIGSTOP
    resumed_by,         \* who sent the SIGCONT that resumed it: "nobody" at first
    maps,               \* /proc/<pid>/maps of the worker: sequence of MemoryRegion
    mem,                \* page address -> [backed, val]: the worker's memory
    locked,             \* page addresses the test has locked in memory
    RESET_REGIONS,      \* Vec<(usize, usize)>: (start, len)
    SNAPSHOT_ENABLED,
    rendezvous,         \* messages (pid, uffd) on the rendezvous socket
    svc_pc,             \* snapshot service: "listening" | "received" | ...
    available,          \* SnapshotManager.available
    workers,            \* SnapshotManager.workers: pid -> WorkerSnapshot
    uffd_ranges,        \* page addresses registered with the worker's uffd
    pending_fault,      \* page addresses the worker is blocked on
    reads,              \* what the worker read since the last reset: [addr, val]
    test_writes,        \* writes the test has made
    resets_in_row,      \* calls of reset_memory since the test ended
    \* --- a single-test session with or without the snapshot handshake ---
    test_outcome,       \* test id -> the status the test ends with
    sock_published,     \* TACH_SUPERVISOR_SOCK is set (the listener was bound)
    exec_pc,            \* execute_session: "discover" | "run_tests" | "returned"
    quiet,              \* the tests whose worker writes no output
    \* --- the memfd of one log slot ---
    lf_worker,          \* the worker of the slot: "none" | "running" | "exited"
    lf_size,            \* length of the file
    lf_data,            \* extents [at, len] of the file that hold worker output
    lf_offset,          \* offset of the open file description all fds share
    lf_written,         \* bytes the worker has written
    lf_writes,          \* number of writes so far
    lf_result,          \* what the last read_and_clear returned and left
    \* --- one value on the wire (protocol.rs) ---
    wire_pc,            \* "idle" | "built" | "panicked" | "framed" | "decoded"
    wire_value,         \* the TestResult or TestPayload built, << >> before
    wire_orig,          \* the message the constructor was given
    wire_frame,         \* what encode_with_length returned
    wire_decoded,       \* what bincode::deserialize returned
    \* --- the mutexes of the CleanupGuard (lifecycle.rs) ---
    poisoned,           \* the mutexes a panicking thread has poisoned
    guard_pc,           \* "live" | "dropped" | "panicked"
    guard_last,         \* the last operation: its name, argument, return
    guard_steps,        \* number of operations so far
    \* --- the result relay of the zygote (zygote.rs 272-336) ---
    rl_worker,          \* per worker: "unborn" | "running" | "exited" | "died"
    rl_sent,            \* per worker: bytes of its frame written to its socket pair
    rl_pair,            \* per worker: bytes in the socket pair, not yet read
    rl_relay,           \* per worker: its collecting thread, [pc, buf]
    rl_chan,            \* the mpsc channel: whole byte vectors
    rl_fwd,             \* the forwarding thread: the vector in hand, bytes written
    rl_session,         \* the bytes written to the session result socket
    \* --- the Scheduler reading the session result socket ---
    rd_pc,              \* "idle" | "len" | "payload": the read_exact in progress
    rd_buf,             \* the bytes the call in progress has read
    rd_pos,             \* the bytes of rl_session consumed so far
    rd_elapsed,         \* seconds the read in progress has waited
    rd_calls,           \* number of calls so far
    \* --- the zygote's command loop, payloads that do not deserialize ---
    zp_skipped,         \* the test ids of the FORK commands skipped
    \* --- SnapshotManager::handle_pending_faults (snapshot.rs) ---
    uf_registered,      \* the worker's pid is a key of self.workers
    uf_golden,          \* the keys of the worker's golden_pages
    uf_events,          \* the events readable from the worker's uffd
    uf_consumed,        \* the events the last call read
    uf_ioctls,          \* the UFFDIO_COPY / UFFDIO_ZEROPAGE the last call issued
    uf_ret,             \* what the last call returned
    \* --- MemoryRegion::should_snapshot applied to one region (snapshot.rs) ---
    ss_region,          \* the MemoryRegion
    ss_applied,         \* should_snapshot() was called on it
    ss_result,          \* what it returned
    \* --- DebugServer::handle_session (debugger.rs) and the signal thread ---
    dbg_pc,             \* where handle_session stands
    dbg_pids,           \* its argument worker_pids
    dbg_target,         \* its argument debug_worker_pid: {} for None, {pid} for Some(pid)
    dbg_term,           \* the mode of the terminal: "cooked" | "raw"
    dbg_mode,           \* TerminalManager::current_mode, "none" before it exists
    dbg_stop_sent,      \* the pids sent SIGSTOP in this session
    dbg_cont_sent,      \* the pids sent SIGCONT in this session
    dbg_sessions,       \* number of sessions started
    sig_last,           \* the signal the signal thread handled last
    sig_count,          \* number of signals handled
    \* --- Resolver::resolve_test on one test (resolver.rs) ---
    rs_registry,        \* what FixtureRegistry::lookup finds for each name
    rs_test,            \* the TestCase: dependencies and parametrized_args
    rs_out              \* what resolve_test returned

schedVars == <<pc, total, max_workers, next_test, passed, failed, collected,
               active_workers, read_elapsed, grace_elapsed, events, forks_sent>>

fleetViewVars == <<result_socket, worker, zygote_alive, log_slots>>

flagVars == <<SHUTDOWN_REQUESTED, IS_DEBUGGING>>

guardVars == <<worker_pids, socket_paths, zygote_pid, kill_log>>

treeVars == <<proc, proc_pc, pdeathsig, sigkill_pending>>

sessVars == <<sup_pc, zyg, cmd_to_sup, cmd_to_zyg, zyg_waited, session_result,
              sess_worker>>

jailVars == <<w_pc, w_test_id, w_log_fd, jail_done, jail_result, w_redirected,
              test_ran, frame_written, w_exited, w_status>>

envVars == <<TACH_NO_ISOLATION>>

\* The environment and the variables of the parts modelled further down.
protoVars == <<sp_pc, sp_total, sp_next, zp_pc, sock_down, sock_up, ready_writes,
               cmds_read, forks_read, pid_writes, pid_reads>>

snapVars == <<snap_pc, stopped, resumed_by, maps, mem, locked, RESET_REGIONS,
              SNAPSHOT_ENABLED, rendezvous, svc_pc, available, workers, uffd_ranges,
              pending_fault, reads, test_writes, resets_in_row>>

modeVars == <<test_outcome, sock_published, exec_pc, quiet>>

logfileVars == <<lf_worker, lf_size, lf_data, lf_offset, lf_written, lf_writes, lf_result>>

\* The groups of the parts modelled last.
wireVars == <<wire_pc, wire_value, wire_orig, wire_frame, wire_decoded>>

guardOpVars == <<poisoned, guard_pc, guard_last, guard_steps>>

relayVars == <<rl_worker, rl_sent, rl_pair, rl_relay, rl_chan, rl_fwd, rl_session>>

readerVars == <<rd_pc, rd_buf, rd_pos, rd_elapsed, rd_calls>>

\* The groups added after the relay.
skipVars == <<zp_skipped>>

\* The groups of the parts at the end of the module.
faultVars == <<uf_registered, uf_golden, uf_events, uf_consumed, uf_ioctls, uf_ret>>

filterVars == <<ss_region, ss_applied, ss_result>>

debugVars == <<dbg_pc, dbg_pids, dbg_target, dbg_term, dbg_mode, dbg_stop_sent,
               dbg_cont_sent, dbg_sessions, sig_last, sig_count>>

resolveVars == <<rs_registry, rs_test, rs_out>>

finalVars == <<faultVars, filterVars, debugVars, resolveVars>>

lastVars == <<readerVars, skipVars, finalVars>>

tailVars == <<logfileVars, wireVars, guardOpVars, relayVars, lastVars>>

\* Everything before them.
coreVars == <<schedVars, fleetViewVars, flagVars, guardVars, treeVars, sessVars,
              jailVars, envVars, protoVars, snapVars, modeVars>>

laterVars == <<envVars, protoVars, snapVars, modeVars, tailVars>>

\* What the steps of each of the last parts leave alone.
outsideLogFile == <<coreVars, wireVars, guardOpVars, relayVars, lastVars>>

outsideWire == <<coreVars, logfileVars, guardOpVars, relayVars, lastVars>>

outsideRelay == <<coreVars, logfileVars, wireVars, guardOpVars, lastVars>>

outsideReader == <<coreVars, logfileVars, wireVars, guardOpVars, relayVars, skipVars,
                   finalVars>>

\* What a step of the command protocol that skips a FORK leaves alone.
outsideSkip == <<schedVars, fleetViewVars, flagVars, guardVars, treeVars, sessVars,
                 jailVars, envVars, snapVars, modeVars,
                 logfileVars, wireVars, guardOpVars, relayVars, readerVars, finalVars>>

\* Everything before the parts at the end of the module.
beforeFinal == <<coreVars, logfileVars, wireVars, guardOpVars, relayVars, readerVars,
                 skipVars>>

outsideGuard == <<schedVars, fleetViewVars, flagVars, treeVars, sessVars,
                  jailVars, envVars, protoVars, snapVars, modeVars,
                  logfileVars, wireVars, relayVars, lastVars>>

vars == <<schedVars, fleetViewVars, flagVars, guardVars, treeVars, sessVars,
          jailVars, laterVars>>

(* ------------------------------------------------------------------ *)
(* Reporter events (reporter.rs)                                       *)
(* ------------------------------------------------------------------ *)

\* The id a test is reported under is its test_name; the name of test t of
\* the input is kept symbolic.
TestName(t) == <<"name", t>>

\* format!("test_{}", result.test_id): the name used for a result frame whose
\* test_id is not in the active-worker table.
FallbackName(id) == <<"test_", id>>

RunStart(n) == [kind |-> "run_start", count |-> n]

TestStart(name) == [kind |-> "test_start", id |-> name]

TestFinished(name, status, msg) ==
    [kind |-> "test_finished", id |-> name, status |-> status, message |-> msg]

RunFinished(p, f, s) ==
    [kind |-> "run_finished", passed |-> p, failed |-> f, skipped |-> s]

ErrorEvent(msg) == [kind |-> "error", message |-> msg]

(* ------------------------------------------------------------------ *)
(* Scheduler helpers                                                   *)
(* ------------------------------------------------------------------ *)

\* let slot = test_id as usize % self.max_workers;
SlotOf(test_id) == test_id % max_workers

\* if result.status == STATUS_PASS { "pass" } else { "fail" }
ReporterStatus(status) == IF status = STATUS_PASS THEN "pass" ELSE "fail"

\* The pid the zygote replies with for the worker of test t.
PidOf(t) == t + 1

RemoveKey(f, k) == [x \in (DOMAIN f) \ {k} |-> f[x]]

\* w.start_time.elapsed() > timeout
StaleWorkers(timeout) == {t \in DOMAIN active_workers : active_workers[t].age > timeout}

\* All orders in which a HashMap iteration may visit the set S.
RECURSIVE Orders(_)
Orders(S) ==
    IF S = {} THEN {<<>>}
    ELSE UNION {{<<x>> \o rest : rest \in Orders(S \ {x})} : x \in S}


(* ------------------------------------------------------------------ *)
(* The process tree and the parent-death signal                        *)
(* ------------------------------------------------------------------ *)

\* Workers forked by the zygote in a run of the process-tree model.
MaxTreeWorkers == 2

Supervisor == <<"supervisor", 0>>

Zygote == <<"zygote", 0>>

TreeWorkers == {<<"worker", i>> : i \in 1 .. MaxTreeWorkers}

Processes == {Supervisor, Zygote} \cup TreeWorkers

\* The chain Supervisor -> Zygote -> Worker.
ParentOf(p) == IF p = Zygote THEN Supervisor ELSE Zygote

TreeInit ==
    /\ proc = [p \in Processes |-> IF p = Supervisor THEN "alive" ELSE "unborn"]
    /\ proc_pc = [p \in Processes |-> "none"]
    /\ pdeathsig = [p \in Processes |-> FALSE]
    /\ sigkill_pending = {}

(* ------------------------------------------------------------------ *)
(* One session (main.rs), before it starts                             *)
(* ------------------------------------------------------------------ *)

CMD_EXIT == 0

CMD_FORK == 1

MSG_READY == 66

\* The pid of the session's zygote; worker pids are PidOf(t) <= MaxTests.
ZygotePid == MaxTests + 1

SessInit ==
    /\ sup_pc = "setup"
    /\ zyg = "none"
    /\ cmd_to_sup = << >>
    /\ cmd_to_zyg = << >>
    /\ zyg_waited = FALSE
    /\ session_result = "none"
    /\ sess_worker = [t \in TestIds |-> "unborn"]

(* ------------------------------------------------------------------ *)
(* One worker (zygote.rs worker branch), just forked                   *)
(* ------------------------------------------------------------------ *)

\* The worker with the payload (test_id, log_fd), at the top of its branch.
JailStart(test_id, log_fd) ==
    /\ w_pc = "forked"
    /\ w_test_id = test_id
    /\ w_log_fd = log_fd
    /\ jail_done = << >>
    /\ jail_result = "pending"
    /\ w_redirected = FALSE
    /\ test_ran = FALSE
    /\ frame_written = FALSE
    /\ w_exited = FALSE
    /\ w_status = 0

JailIdle == JailStart(0, 0 - 1)

\* main.rs 101-104: --no-isolation puts TACH_NO_ISOLATION=1 in the
\* environment, which every child inherits.
EnvInit(cli_no_isolation) == TACH_NO_ISOLATION = cli_no_isolation

EnvIdle == EnvInit(FALSE)

\* The command socket before the zygote has booted, total tests to dispatch.
ProtoStart(n) ==
    /\ sp_pc = "wait_ready"
    /\ sp_total = n
    /\ sp_next = 0
    /\ zp_pc = "boot"
    /\ sock_down = << >>
    /\ sock_up = << >>
    /\ ready_writes = 0
    /\ cmds_read = 0
    /\ forks_read = 0
    /\ pid_writes = 0
    /\ pid_reads = << >>

ProtoIdle == ProtoStart(0)

(* ------------------------------------------------------------------ *)
(* Memory regions and pages (snapshot.rs)                              *)
(* ------------------------------------------------------------------ *)

PAGE_SIZE == 4096

\* Pages of the worker's address space in this model.
MaxPages == 3

PageAddrs == {PAGE_SIZE * i : i \in 1 .. MaxPages}

\* A MemoryRegion; perms is the sequence of its characters, name the set of
\* the substrings that should_snapshot and is_stack look for in the path
\* name ("other" for a name with none of them, the empty set for no name).
Region(start, len, perms, name) ==
    [start |-> start, end |-> start + len, len |-> len, perms |-> perms,
     name |-> name]

PermsContain(r, ch) == \E i \in 1 .. Len(r.perms) : r.perms[i] = ch

\* MemoryRegion::should_snapshot
should_snapshot(r) ==
    IF ~PermsContain(r, "w") THEN FALSE
    ELSE IF "[vdso]" \in r.name \/ "[vsyscall]" \in r.name THEN FALSE
    ELSE IF "[heap]" \in r.name THEN TRUE
    ELSE IF "[stack]" \in r.name THEN TRUE
    ELSE IF "libpython" \in r.name THEN TRUE
    ELSE IF r.name = {} /\ PermsContain(r, "p") THEN TRUE
    ELSE FALSE

\* MemoryRegion::is_stack
is_stack(r) == "[stack]" \in r.name

\* align_to_page rounding up instead of down
align_to_page_up(addr) == addr + ((PAGE_SIZE - (addr % PAGE_SIZE)) % PAGE_SIZE)

\* addr & !(PAGE_SIZE - 1)
align_to_page(addr) == addr - (addr % PAGE_SIZE)

\* The pages a range of addresses touches.
PagesOf(start, len) ==
    {a \in PageAddrs : a + PAGE_SIZE > start /\ a < start + len}

RW == <<"r", "w", "-", "p">>

\* The memory maps a worker may have when it enters the handshake.
MapsLayouts ==
    { << Region(PAGE_SIZE, PAGE_SIZE, RW, {"[heap]"}),
         Region(2 * PAGE_SIZE, PAGE_SIZE, RW, {"[stack]"}),
         Region(3 * PAGE_SIZE, PAGE_SIZE, <<"r", "-", "x", "p">>, {"[vdso]"}) >>,
      << Region(PAGE_SIZE, 2 * PAGE_SIZE, RW, {}),
         Region(3 * PAGE_SIZE, PAGE_SIZE, <<"r", "-", "-", "p">>, {"other"}) >>,
      << Region(PAGE_SIZE, PAGE_SIZE + 4, RW, {"libpython"}),
         Region(3 * PAGE_SIZE, 1, RW, {"[heap]"}) >> }

\* The worker with memory map m, before init_snapshot_mode; avail is what
\* SnapshotManager::new found.
SnapStartAt(at, m, avail) ==
    /\ snap_pc = at
    /\ stopped = FALSE
    /\ resumed_by = "nobody"
    /\ maps = m
    /\ mem = [a \in PageAddrs |-> [backed |-> TRUE, val |-> "initial"]]
    /\ locked = {}
    /\ RESET_REGIONS = << >>
    /\ SNAPSHOT_ENABLED = FALSE
    /\ rendezvous = << >>
    /\ svc_pc = "listening"
    /\ available = avail
    /\ workers = << >>
    /\ uffd_ranges = {}
    /\ pending_fault = {}
    /\ reads = << >>
    /\ test_writes = 0
    /\ resets_in_row = 0

SnapStart(m, avail) == SnapStartAt("hygiene", m, avail)

SnapIdle == SnapStart(<< >>, FALSE)

\* RunContext::new bound the listener or not; the test ends with outcome.
ModeStart(outcome, published) ==
    /\ test_outcome = [t \in TestIds |-> outcome]
    /\ sock_published = published
    /\ exec_pc = "discover"
    /\ quiet = {}

ModeIdle == ModeStart(STATUS_PASS, FALSE)

(* ------------------------------------------------------------------ *)
(* The memfd of a log slot (logcapture.rs)                              *)
(* ------------------------------------------------------------------ *)

\* 1024 * 1024
LOG_BUFFER_SIZE == 1048576

\* LogCapture::new: memfd_create, then ftruncate(fd, LOG_BUFFER_SIZE).
LogFileStart ==
    /\ lf_worker = "none"
    /\ lf_size = LOG_BUFFER_SIZE
    /\ lf_data = << >>
    /\ lf_offset = 0
    /\ lf_written = 0
    /\ lf_writes = 0
    /\ lf_result = << >>

(* ------------------------------------------------------------------ *)
(* The wire format (protocol.rs, bincode 1.x: little-endian, fixed-width *)
(* integers, u64 lengths)                                               *)
(* ------------------------------------------------------------------ *)

\* A length of up to 2^47, as <<hi, lo>> with value hi * 65536 + lo: the
\* lengths of usize and u64 do not fit the integers of the checker.
Wide(n) == <<n \div 65536, n % 65536>>

WideAdd(a, b) ==
    <<a[1] + b[1] + ((a[2] + b[2]) \div 65536), (a[2] + b[2]) % 65536>>

WideLE(a, b) == a[1] < b[1] \/ (a[1] = b[1] /\ a[2] <= b[2])

\* a - b, for b <= a
WideSub(a, b) ==
    IF a[2] >= b[2] THEN <<a[1] - b[1], a[2] - b[2]>>
    ELSE <<a[1] - b[1] - 1, a[2] + 65536 - b[2]>>

\* `n as u32`
AsU32(w) == <<w[1] % 65536, w[2]>>

\* A byte string: the bytes of head, then fill bytes 'x'.  Only the last
\* string of a value has a fill; it stands for the strings too long to
\* enumerate.
FillByte == 120

Str(bytes) == [head |-> bytes, fill |-> Wide(0)]

StrLen(s) == WideAdd(Wide(Len(s.head)), s.fill)

Fill(n) == [i \in 1 .. n |-> FillByte]

\* &s[..n] for n below 2^16, NoSlice when n is not a char boundary (the
\* slice panics): bytes 128..191 continue a UTF-8 character.
NoSlice == [head |-> <<-1>>, fill |-> Wide(0)]

IsCharBoundary(s, n) ==
    \/ n = 0
    \/ Wide(n) = StrLen(s)
    \/ n >= Len(s.head)
    \/ s.head[n + 1] \notin 128 .. 191

SliceTo(s, n) ==
    IF ~IsCharBoundary(s, n) THEN NoSlice
    ELSE IF n <= Len(s.head) THEN Str(SubSeq(s.head, 1, n))
    ELSE Str(s.head \o Fill(n - Len(s.head)))

\* "... [truncated]"
TruncatedSuffix == <<46, 46, 46, 32, 91, 116, 114, 117, 110, 99, 97, 116, 101, 100, 93>>

MAX_LEN == 4096

\* truncate_message(msg), NoSlice when it panics
truncate_message(msg) ==
    IF ~WideLE(StrLen(msg), Wide(MAX_LEN))
    THEN IF SliceTo(msg, MAX_LEN) = NoSlice THEN NoSlice
         ELSE Str(SliceTo(msg, MAX_LEN).head \o TruncatedSuffix)
    ELSE msg

\* u32::to_le_bytes, for n below 2^31
LeU32(n) == <<n % 256, (n \div 256) % 256, (n \div 65536) % 256, (n \div 16777216) % 256>>

\* u32::to_le_bytes of a wide number below 2^32
LeU32Wide(w) == <<w[2] % 256, w[2] \div 256, w[1] % 256, (w[1] \div 256) % 256>>

\* u64::to_le_bytes of a wide number
LeU64(w) ==
    <<w[2] % 256, w[2] \div 256, w[1] % 256, (w[1] \div 256) % 256,
      (w[1] \div 65536) % 256, (w[1] \div 16777216) % 256, 0, 0>>

\* i32::to_le_bytes with the sign bit lost
LeI32NoSign(n) == LeU32(IF n < 0 THEN n + 2147483647 + 1 ELSE n)

\* i32::to_le_bytes: two's complement
LeI32(n) ==
    IF n >= 0 THEN LeU32(n)
    ELSE LET u == n + 2147483647 + 1
         IN  <<u % 256, (u \div 256) % 256, (u \div 65536) % 256, ((u \div 16777216) % 256) + 128>>

\* bincode of a String: its length as u64, then its bytes (the fill apart)
SerStr(s) == LeU64(StrLen(s)) \o s.head

RECURSIVE SerFixtures(_)
SerFixtures(fs) ==
    IF fs = << >> THEN << >>
    ELSE SerStr(Head(fs).name) \o SerStr(Head(fs).scope) \o SerFixtures(Tail(fs))

\* bincode::serialize(value): the fields in declaration order
Serialize(v) ==
    IF v.kind = "result"
    THEN [head |-> LeU32(v.test_id) \o <<v.status>> \o LeU64(Wide(v.duration_ns))
                   \o SerStr(v.message),
          fill |-> v.message.fill]
    ELSE [head |-> LeU32(v.test_id) \o SerStr(v.file_path) \o SerStr(v.test_name)
                   \o <<IF v.is_async THEN 1 ELSE 0>>
                   \o LeU64(Wide(Len(v.fixtures))) \o SerFixtures(v.fixtures)
                   \o LeI32(v.log_fd) \o SerStr(v.debug_socket_path),
          fill |-> v.debug_socket_path.fill]

\* encode_with_length(value): the length as u32, little-endian, then the
\* payload
encode_with_length(v) ==
    [prefix |-> LeU32Wide(AsU32(StrLen(Serialize(v)))), payload |-> Serialize(v)]

WireIdle ==
    /\ wire_pc = "idle"
    /\ wire_value = << >>
    /\ wire_orig = << >>
    /\ wire_frame = << >>
    /\ wire_decoded = << >>

\* CleanupGuard::new: no mutex is poisoned.
GuardOpsIdle ==
    /\ poisoned = {}
    /\ guard_pc = "live"
    /\ guard_last = << >>
    /\ guard_steps = 0

(* ------------------------------------------------------------------ *)
(* The result relay of the zygote (zygote.rs 272-284, 321-336)          *)
(* ------------------------------------------------------------------ *)

MaxRelayWorkers == 2

RelayWorkers == 1 .. MaxRelayWorkers

\* The zygote is ready: the channel and the forwarding thread exist, no
\* worker has been forked.
RelayStart ==
    /\ rl_worker = [w \in RelayWorkers |-> "unborn"]
    /\ rl_sent = [w \in RelayWorkers |-> 0]
    /\ rl_pair = [w \in RelayWorkers |-> << >>]
    /\ rl_relay = [w \in RelayWorkers |-> [pc |-> "none", buf |-> << >>]]
    /\ rl_chan = << >>
    /\ rl_fwd = [data |-> << >>, written |-> 0]
    /\ rl_session = << >>

\* Scheduler::new: nothing has been read from the result socket.
ReaderStart ==
    /\ rd_pc = "idle"
    /\ rd_buf = << >>
    /\ rd_pos = 0
    /\ rd_elapsed = 0
    /\ rd_calls = 0

\* The groups added after the relay, at rest.
NoCall == [called |-> FALSE, ok |-> FALSE, handled |-> 0]

\* SnapshotManager with no call of handle_pending_faults made yet.
FaultsIdle ==
    /\ uf_registered = FALSE
    /\ uf_golden = {}
    /\ uf_events = << >>
    /\ uf_consumed = << >>
    /\ uf_ioctls = << >>
    /\ uf_ret = NoCall

\* No region has been handed to should_snapshot.
FilterIdle ==
    /\ ss_region = [start |-> 0, end |-> 0, len |-> 0, perms |-> << >>, name |-> {}]
    /\ ss_applied = FALSE
    /\ ss_result = FALSE

\* No debug session was started and no signal was handled.
DebugIdle ==
    /\ dbg_pc = "idle"
    /\ dbg_pids = {}
    /\ dbg_target = {}
    /\ dbg_term = "cooked"
    /\ dbg_mode = "none"
    /\ dbg_stop_sent = {}
    /\ dbg_cont_sent = {}
    /\ dbg_sessions = 0
    /\ sig_last = "none"
    /\ sig_count = 0

NotResolved == [done |-> FALSE, ok |-> FALSE, fixtures |-> << >>]

\* No test has been resolved.
ResolveIdle ==
    /\ rs_registry = << >>
    /\ rs_test = [dependencies |-> << >>, parametrized_args |-> {}]
    /\ rs_out = NotResolved

FinalIdle == FaultsIdle /\ FilterIdle /\ DebugIdle /\ ResolveIdle

LastIdle == ReaderStart /\ zp_skipped = {} /\ FinalIdle

\* The parts modelled last, at rest.
TailIdle == LogFileStart /\ WireIdle /\ GuardOpsIdle /\ RelayStart /\ LastIdle

\* The parts modelled further down, at rest.
LaterIdle == ProtoIdle /\ SnapIdle /\ ModeIdle /\ TailIdle

\* Every variable that Scheduler::run and its environment leave alone.
outsideRun == <<guardVars, treeVars, sessVars, jailVars, laterVars>>

ReadingPcs == {"wait_capacity", "collect_read"}

GracePcs == {"collect_remaining", "collect_read"}

(* ------------------------------------------------------------------ *)
(* Scheduler::run, start: lines 60-74                                  *)
(* ------------------------------------------------------------------ *)

SchedInit ==
    /\ pc = "start"
    /\ total \in 0 .. MaxTests
    /\ max_workers \in 1 .. MaxSlots
    /\ max_workers <= Max(total, 1)
    /\ next_test = 0
    /\ passed = 0
    /\ failed = 0
    /\ collected = 0
    /\ active_workers = << >>
    /\ read_elapsed = 0
    /\ grace_elapsed = 0
    /\ events = << >>
    /\ forks_sent = 0
    /\ result_socket = << >>
    /\ worker = [t \in TestIds |-> "none"]
    /\ zygote_alive = TRUE
    /\ log_slots = [s \in 0 .. (max_workers - 1) |-> {}]
    /\ SHUTDOWN_REQUESTED = FALSE
    /\ IS_DEBUGGING = FALSE

GuardInit ==
    /\ worker_pids = << >>
    /\ socket_paths = << >>
    /\ zygote_pid = 0
    /\ kill_log = << >>

\* reporter.on_run_start(total); the queue is built.
RunBegin ==
    /\ pc = "start"
    /\ events' = Append(events, RunStart(total))
    /\ pc' = "dispatch_loop"
    /\ UNCHANGED <<total, max_workers, next_test, passed, failed, collected,
                   active_workers, read_elapsed, grace_elapsed, forks_sent>>
    /\ UNCHANGED <<fleetViewVars, flagVars, outsideRun>>

(* ------------------------------------------------------------------ *)
(* Scheduler::dispatch_test and its call site: lines 101-109, 204-241   *)
(* ------------------------------------------------------------------ *)

\* test_start, then dispatch_test(test, test_id, slot).  The three writes and
\* the read of the pid succeed while the zygote lives and fail once it is
\* gone; the pid read is dropped, only the table entry is inserted.
DispatchTest(t) ==
    IF zygote_alive
    THEN /\ events' = Append(events, TestStart(TestName(t)))
         /\ forks_sent' = forks_sent + 1
         /\ worker' = [worker EXCEPT ![t] = "running"]
         /\ active_workers' =
                [x \in (DOMAIN active_workers) \cup {t} |->
                    IF x = t
                    THEN [test_name |-> TestName(t), slot |-> SlotOf(t), age |-> 0]
                    ELSE active_workers[x]]
         /\ UNCHANGED <<failed, collected>>
    ELSE /\ events' = events \o <<TestStart(TestName(t)),
                                  TestFinished(TestName(t), "fail", "dispatch error")>>
         /\ failed' = failed + 1
         /\ collected' = collected + 1
         /\ UNCHANGED <<forks_sent, worker, active_workers>>

(* ------------------------------------------------------------------ *)
(* Scheduler::try_collect_result_for_reporter: lines 154-202           *)
(* ------------------------------------------------------------------ *)

\* A whole frame is on the result socket: it is read, the worker entry is
\* removed (or the fallback name and slot 0 are used), the slot is read and
\* cleared, and the caller reports the result and counts it.
CollectFrame ==
    /\ result_socket # << >>
    /\ LET frame == Head(result_socket)
           known == frame.test_id \in DOMAIN active_workers
           name == IF known THEN active_workers[frame.test_id].test_name
                   ELSE FallbackName(frame.test_id)
           slot == IF known THEN active_workers[frame.test_id].slot ELSE 0
           status == ReporterStatus(frame.status)
       IN /\ result_socket' = Tail(result_socket)
          /\ active_workers' = RemoveKey(active_workers, frame.test_id)
          /\ log_slots' = [log_slots EXCEPT ![slot] = {}]
          /\ events' = Append(events, TestFinished(name, status, "result"))
          /\ passed' = IF status = "pass" THEN passed + 1 ELSE passed
          /\ failed' = IF status = "pass" THEN failed ELSE failed + 1
          /\ collected' = collected + 1

\* The read gives up: the 5 second timeout expired with nothing to read, or
\* the peer is gone and the read fails at once.
ReadFails ==
    /\ result_socket = << >>
    /\ \/ read_elapsed >= READ_TIMEOUT_SECS
       \/ ~zygote_alive

(* ------------------------------------------------------------------ *)
(* Scheduler::run, the dispatch loop: lines 76-110                     *)
(* ------------------------------------------------------------------ *)

\* if signals::shutdown_requested() { reporter.on_error(..); break; }
LoopShutdown ==
    /\ pc = "dispatch_loop"
    /\ next_test < total
    /\ SHUTDOWN_REQUESTED
    /\ events' = Append(events, ErrorEvent("Shutdown requested"))
    /\ pc' = "collect_remaining"
    /\ grace_elapsed' = 0
    /\ UNCHANGED <<total, max_workers, next_test, passed, failed, collected, active_workers,
                   read_elapsed, forks_sent>>
    /\ UNCHANGED <<fleetViewVars, flagVars, outsideRun>>

\* The queue is drained: the loop ends and the deadline is computed.
LoopEnd ==
    /\ pc = "dispatch_loop"
    /\ next_test = total
    /\ pc' = "collect_remaining"
    /\ grace_elapsed' = 0
    /\ UNCHANGED <<total, max_workers, next_test, passed, failed, collected,
                   active_workers, read_elapsed, events, forks_sent>>
    /\ UNCHANGED <<fleetViewVars, flagVars, outsideRun>>

\* A dispatch loop that never waits for a free place.
LoopDispatchUnguarded ==
    /\ pc = "dispatch_loop"
    /\ next_test < total
    /\ ~SHUTDOWN_REQUESTED
    /\ DispatchTest(next_test)
    /\ next_test' = next_test + 1
    /\ pc' = "dispatch_loop"
    /\ UNCHANGED <<total, max_workers, passed, read_elapsed, grace_elapsed>>
    /\ UNCHANGED <<result_socket, zygote_alive, log_slots, flagVars, outsideRun>>

\* No shutdown and a free place in the table: the test is dispatched.
LoopDispatch ==
    /\ pc = "dispatch_loop"
    /\ next_test < total
    /\ ~SHUTDOWN_REQUESTED
    /\ Cardinality(DOMAIN active_workers) < max_workers
    /\ DispatchTest(next_test)
    /\ next_test' = next_test + 1
    /\ pc' = "dispatch_loop"
    /\ UNCHANGED <<total, max_workers, passed, read_elapsed, grace_elapsed>>
    /\ UNCHANGED <<result_socket, zygote_alive, log_slots, flagVars, outsideRun>>

\* No shutdown and the table is full: the loop of line 86 is entered and the
\* first read of the result socket starts.
LoopWait ==
    /\ pc = "dispatch_loop"
    /\ next_test < total
    /\ ~SHUTDOWN_REQUESTED
    /\ Cardinality(DOMAIN active_workers) >= max_workers
    /\ pc' = "wait_capacity"
    /\ read_elapsed' = 0
    /\ UNCHANGED <<total, max_workers, next_test, passed, failed, collected,
                   active_workers, grace_elapsed, events, forks_sent>>
    /\ UNCHANGED <<fleetViewVars, flagVars, outsideRun>>

\* Inside the wait loop a result is collected; the loop condition is tested
\* again and either the next read starts or the loop is left.
WaitCollect ==
    /\ pc = "wait_capacity"
    /\ CollectFrame
    /\ pc' = IF Cardinality(DOMAIN active_workers') >= max_workers
             THEN "wait_capacity" ELSE "dispatch"
    /\ read_elapsed' = 0
    /\ UNCHANGED <<total, max_workers, next_test, grace_elapsed, forks_sent>>
    /\ UNCHANGED <<worker, zygote_alive, flagVars, outsideRun>>

\* Inside the wait loop the read gives up: nothing else is done and the
\* loop goes round.
WaitNone ==
    /\ pc = "wait_capacity"
    /\ ReadFails
    /\ read_elapsed' = 0
    /\ UNCHANGED <<pc, total, max_workers, next_test, passed, failed, collected,
                   active_workers, grace_elapsed, events, forks_sent>>
    /\ UNCHANGED <<fleetViewVars, flagVars, outsideRun>>

\* After the wait loop: test_start and dispatch_test, lines 101-109.
DispatchAfterWait ==
    /\ pc = "dispatch"
    /\ DispatchTest(next_test)
    /\ next_test' = next_test + 1
    /\ pc' = "dispatch_loop"
    /\ UNCHANGED <<total, max_workers, passed, read_elapsed, grace_elapsed>>
    /\ UNCHANGED <<result_socket, zygote_alive, log_slots, flagVars, outsideRun>>


(* ------------------------------------------------------------------ *)
(* Scheduler::run, collecting the remaining results: lines 112-150     *)
(* ------------------------------------------------------------------ *)

\* while collected < total && Instant::now() < deadline: the body is entered
\* and the read of the result socket starts.
FinalEnter ==
    /\ pc = "collect_remaining"
    /\ collected < total
    /\ grace_elapsed < GRACE_SECS
    /\ pc' = "collect_read"
    /\ read_elapsed' = 0
    /\ UNCHANGED <<total, max_workers, next_test, passed, failed, collected,
                   active_workers, grace_elapsed, events, forks_sent>>
    /\ UNCHANGED <<fleetViewVars, flagVars, outsideRun>>

\* A result is collected, reported and counted.
FinalCollect ==
    /\ pc = "collect_read"
    /\ CollectFrame
    /\ pc' = "collect_remaining"
    /\ UNCHANGED <<total, max_workers, next_test, read_elapsed, grace_elapsed,
                   forks_sent>>
    /\ UNCHANGED <<worker, zygote_alive, flagVars, outsideRun>>

\* The read gave up: every worker older than 3 seconds is reported as
\* crashed, its slot read and cleared and its entry removed.
FinalReap ==
    /\ pc = "collect_read"
    /\ ReadFails
    /\ LET stale == StaleWorkers(STALE_SECS)
           Crashed(t) == TestFinished(active_workers[t].test_name, "fail",
                                      "CRASHED - no response")
       IN /\ \E order \in Orders(stale) :
                events' = events \o [i \in 1 .. Len(order) |-> Crashed(order[i])]
          /\ log_slots' = [s \in DOMAIN log_slots |->
                             IF \E t \in stale : active_workers[t].slot = s
                             THEN {} ELSE log_slots[s]]
          /\ active_workers' = [x \in (DOMAIN active_workers) \ stale |->
                                  active_workers[x]]
          /\ failed' = failed + Cardinality(stale)
          /\ collected' = collected + Cardinality(stale)
    /\ pc' = "collect_remaining"
    /\ UNCHANGED <<total, max_workers, next_test, passed, read_elapsed,
                   grace_elapsed, forks_sent>>
    /\ UNCHANGED <<result_socket, worker, zygote_alive, flagVars, outsideRun>>

\* The loop is over: reporter.on_run_finished(passed, failed, 0, duration_ms).
RunFinish ==
    /\ pc = "collect_remaining"
    /\ ~(collected < total /\ grace_elapsed < GRACE_SECS)
    /\ events' = Append(events, RunFinished(passed, failed, 0))
    /\ pc' = "finished"
    /\ UNCHANGED <<total, max_workers, next_test, passed, failed, collected,
                   active_workers, read_elapsed, grace_elapsed, forks_sent>>
    /\ UNCHANGED <<fleetViewVars, flagVars, outsideRun>>

(* ------------------------------------------------------------------ *)
(* The environment of the run: workers, zygote, signals, time          *)
(* ------------------------------------------------------------------ *)

Running == pc \notin {"start", "finished"}

\* zygote.rs 366-369, 430: the worker's output goes to the memfd of its slot.
WorkerPrint(t) ==
    /\ Running
    /\ worker[t] = "running"
    /\ t \notin log_slots[SlotOf(t)]
    /\ log_slots' = [log_slots EXCEPT ![SlotOf(t)] = @ \cup {t}]
    /\ UNCHANGED <<schedVars, result_socket, worker, zygote_alive, flagVars, outsideRun>>

\* zygote.rs 396-403 and 322-336, 277-284: the worker writes its result
\* frame and exits; the relay thread and the forwarding thread put the whole
\* frame on the session result socket.
WorkerFinish(t, status) ==
    /\ Running
    /\ worker[t] = "running"
    /\ zygote_alive
    /\ worker' = [worker EXCEPT ![t] = "exited"]
    /\ result_socket' = Append(result_socket, [test_id |-> t, status |-> status])
    /\ UNCHANGED <<schedVars, zygote_alive, log_slots, flagVars, outsideRun>>

\* The worker dies without writing a result.
WorkerCrash(t) ==
    /\ Running
    /\ worker[t] = "running"
    /\ worker' = [worker EXCEPT ![t] = "crashed"]
    /\ UNCHANGED <<schedVars, result_socket, zygote_alive, log_slots, flagVars, outsideRun>>

\* The zygote dies; its armed workers die with it (zygote.rs 343-345).
ZygoteDies ==
    /\ Running
    /\ zygote_alive
    /\ zygote_alive' = FALSE
    /\ worker' = [t \in TestIds |-> IF worker[t] = "running" THEN "crashed" ELSE worker[t]]
    /\ UNCHANGED <<schedVars, result_socket, log_slots, flagVars, outsideRun>>

\* signals.rs 33-54: the signal thread handles one signal.
HandleSignal(sig) ==
    /\ Running
    /\ ~SHUTDOWN_REQUESTED
    /\ SHUTDOWN_REQUESTED' =
          IF sig = "SIGINT"
          THEN (IF IS_DEBUGGING THEN SHUTDOWN_REQUESTED ELSE TRUE)
          ELSE (IF sig \in {"SIGTERM", "SIGQUIT"} THEN TRUE ELSE SHUTDOWN_REQUESTED)
    /\ UNCHANGED <<schedVars, fleetViewVars, IS_DEBUGGING, outsideRun>>

\* One second passes.  The steps of the scheduler take no time of their own:
\* time passes while it is inside a read of the result socket that has
\* nothing to return yet (a read that fails at once, the peer being gone, is
\* repeated, and time passes over the repetitions).  A blocked read returns
\* when its timeout is reached, so time does not pass beyond it.
Tick ==
    /\ pc \in ReadingPcs
    /\ result_socket = << >>
    /\ ~zygote_alive \/ read_elapsed < READ_TIMEOUT_SECS
    /\ active_workers' = [t \in DOMAIN active_workers |->
            [active_workers[t] EXCEPT !.age = Min(@ + 1, STALE_SECS + 1)]]
    /\ read_elapsed' = IF pc \in ReadingPcs
                       THEN Min(read_elapsed + 1, READ_TIMEOUT_SECS) ELSE read_elapsed
    /\ grace_elapsed' = IF pc \in GracePcs
                        THEN Min(grace_elapsed + 1, GRACE_SECS) ELSE grace_elapsed
    /\ UNCHANGED <<pc, total, max_workers, next_test, passed, failed, collected,
                   events, forks_sent>>
    /\ UNCHANGED <<fleetViewVars, flagVars, outsideRun>>

SchedulerStep ==
    \/ RunBegin
    \/ LoopShutdown
    \/ LoopEnd
    \/ LoopDispatch
    \/ LoopWait
    \/ WaitCollect
    \/ WaitNone
    \/ DispatchAfterWait
    \/ FinalEnter
    \/ FinalCollect
    \/ FinalReap
    \/ RunFinish

Init == SchedInit /\ GuardInit /\ TreeInit /\ SessInit /\ JailIdle /\ EnvIdle /\ LaterIdle

Next ==
    \/ SchedulerStep
    \/ \E t \in TestIds : WorkerPrint(t)
    \/ \E t \in TestIds, st \in ResultStatuses : WorkerFinish(t, st)
    \/ \E t \in TestIds : WorkerCrash(t)
    \/ ZygoteDies
    \/ \E sig \in {"SIGINT", "SIGTERM", "SIGQUIT"} : HandleSignal(sig)
    \/ Tick

Spec == Init /\ [][Next]_vars


\* The scheduler thread keeps running and time keeps passing.
FairSpec == Spec /\ WF_vars(SchedulerStep) /\ SF_vars(Tick)

(* ------------------------------------------------------------------ *)
(* Properties of the scheduler                                         *)
(* ------------------------------------------------------------------ *)

\* The tests that went through test_start and dispatch_test.
Dispatched == 0 .. (next_test - 1)

IsFinishedEventOf(e, t) ==
    /\ e.kind = "test_finished"
    /\ e.id \in {TestName(t), FallbackName(t)}

\* Number of test_finished events emitted for test t.
FinishedCount(t) ==
    Cardinality({i \in 1 .. Len(events) : IsFinishedEventOf(events[i], t)})

\* C1: every dispatched test gets exactly one test_finished event: never more
\* than one at any time, and one when the run has ended.
C1_ExactlyOneFinished ==
    /\ \A t \in TestIds : FinishedCount(t) <= 1
    /\ pc = "finished" => \A t \in Dispatched : FinishedCount(t) = 1

\* C2: the counts given to run_finished add up to the number of tests
\* dispatched in the run.
C2_CountsAddUp ==
    \A i \in 1 .. Len(events) :
        events[i].kind = "run_finished" =>
            events[i].passed + events[i].failed + events[i].skipped = next_test

\* C3: no two entries of the active-worker table carry the same log slot.
C3_SlotExclusive ==
    \A t1, t2 \in DOMAIN active_workers :
        t1 # t2 => active_workers[t1].slot # active_workers[t2].slot


CrashReported(t) ==
    \E i \in 1 .. Len(events) :
        events[i] = TestFinished(TestName(t), "fail", "CRASHED - no response")

\* C4: a dispatched worker that never writes a result is eventually reported
\* as "CRASHED - no response" and removed from the active-worker table, and
\* the tests still queued are eventually taken from the queue.
C4_CrashedWorkerReaped ==
    \A t \in TestIds :
        (t \in DOMAIN active_workers /\ worker[t] = "crashed")
            ~> (/\ t \notin DOMAIN active_workers
                /\ CrashReported(t)
                /\ (next_test = total \/ SHUTDOWN_REQUESTED))

\* C5: run_start is the first event, run_finished the last, and every
\* test_finished follows a test_start carrying the same id.
C5_EventOrder ==
    /\ \A i \in 1 .. Len(events) :
          /\ (events[i].kind = "run_start") <=> (i = 1)
          /\ events[i].kind = "run_finished" => i = Len(events)
          /\ events[i].kind = "test_finished" =>
                \E j \in 1 .. (i - 1) :
                    /\ events[j].kind = "test_start"
                    /\ events[j].id = events[i].id

\* C6: once the shutdown flag is set no further FORK command is sent.
C6_NoForkAfterShutdown ==
    [][SHUTDOWN_REQUESTED => forks_sent' = forks_sent]_vars

\* C8: the pid of every worker in the active-worker table is tracked in the
\* cleanup guard.
C8_ActiveWorkersTracked ==
    \A t \in DOMAIN active_workers :
        \E i \in 1 .. Len(worker_pids) : worker_pids[i] = PidOf(t)


(* ------------------------------------------------------------------ *)
(* The process tree: fork, PR_SET_PDEATHSIG, death                     *)
(* ------------------------------------------------------------------ *)

\* Everything outside the process tree, at rest.
SchedIdle ==
    /\ pc = "start"
    /\ total = 0
    /\ max_workers = 1
    /\ next_test = 0
    /\ passed = 0
    /\ failed = 0
    /\ collected = 0
    /\ active_workers = << >>
    /\ read_elapsed = 0
    /\ grace_elapsed = 0
    /\ events = << >>
    /\ forks_sent = 0
    /\ result_socket = << >>
    /\ worker = [t \in TestIds |-> "none"]
    /\ zygote_alive = TRUE
    /\ log_slots = [s \in 0 .. 0 |-> {}]
    /\ SHUTDOWN_REQUESTED = FALSE
    /\ IS_DEBUGGING = FALSE

outsideTree == <<schedVars, fleetViewVars, flagVars, guardVars, sessVars, jailVars,
                 laterVars>>

\* What the kernel does when process p ends, however it ends: every living
\* child that has set PR_SET_PDEATHSIG gets its SIGKILL queued.  A child that
\* has not set it yet gets nothing, now or later.
ProcessEnds(p) ==
    /\ proc' = [proc EXCEPT ![p] = "dead"]
    /\ sigkill_pending' =
          (sigkill_pending \ {p}) \cup
          {c \in Processes \ {Supervisor} :
              ParentOf(c) = p /\ proc[c] = "alive" /\ pdeathsig[c]}

\* main.rs 310: the supervisor forks the zygote.
ForkZygote ==
    /\ proc[Supervisor] = "alive"
    /\ proc[Zygote] = "unborn"
    /\ proc' = [proc EXCEPT ![Zygote] = "alive"]
    /\ proc_pc' = [proc_pc EXCEPT ![Zygote] = "forked"]
    /\ UNCHANGED <<pdeathsig, sigkill_pending, outsideTree>>

\* zygote.rs 171-173: prctl(PR_SET_PDEATHSIG, SIGKILL), first thing in
\* entrypoint.  It arms the signal for a later death of the parent only.
ZygoteArms ==
    /\ proc[Zygote] = "alive"
    /\ proc_pc[Zygote] = "forked"
    /\ pdeathsig' = [pdeathsig EXCEPT ![Zygote] = TRUE]
    /\ proc_pc' = [proc_pc EXCEPT ![Zygote] = "booting"]
    /\ UNCHANGED <<proc, sigkill_pending, outsideTree>>

\* zygote.rs 176-270: the interpreter is initialised and the readiness byte
\* written; the write fails once the supervisor's end is closed and the
\* zygote then leaves entrypoint with the error (main.rs 319-322).
ZygoteReady ==
    /\ proc[Zygote] = "alive"
    /\ proc_pc[Zygote] = "booting"
    /\ IF proc[Supervisor] = "alive"
       THEN /\ proc_pc' = [proc_pc EXCEPT ![Zygote] = "serving"]
            /\ UNCHANGED <<proc, sigkill_pending>>
       ELSE /\ ProcessEnds(Zygote)
            /\ UNCHANGED proc_pc
    /\ UNCHANGED <<pdeathsig, outsideTree>>

\* zygote.rs 294-337: a FORK command is served.
ZygoteForks(w) ==
    /\ proc[Zygote] = "alive"
    /\ proc_pc[Zygote] = "serving"
    /\ proc[w] = "unborn"
    /\ proc' = [proc EXCEPT ![w] = "alive"]
    /\ proc_pc' = [proc_pc EXCEPT ![w] = "forked"]
    /\ UNCHANGED <<pdeathsig, sigkill_pending, outsideTree>>

\* zygote.rs 341-345: prctl(PR_SET_PDEATHSIG, SIGKILL) in the worker.
WorkerArms(w) ==
    /\ proc[w] = "alive"
    /\ proc_pc[w] = "forked"
    /\ pdeathsig' = [pdeathsig EXCEPT ![w] = TRUE]
    /\ proc_pc' = [proc_pc EXCEPT ![w] = "isolating"]
    /\ UNCHANGED <<proc, sigkill_pending, outsideTree>>

\* zygote.rs 352-360: the jail is set up; on an error the worker exits(1).
WorkerIsolates(w, ok) ==
    /\ proc[w] = "alive"
    /\ proc_pc[w] = "isolating"
    /\ IF ok
       THEN /\ proc_pc' = [proc_pc EXCEPT ![w] = "testing"]
            /\ UNCHANGED <<proc, sigkill_pending>>
       ELSE /\ ProcessEnds(w)
            /\ UNCHANGED proc_pc
    /\ UNCHANGED <<pdeathsig, outsideTree>>

\* zygote.rs 396-403: the test returns, the result is written, exit(0).
WorkerExits(w) ==
    /\ proc[w] = "alive"
    /\ proc_pc[w] = "testing"
    /\ ProcessEnds(w)
    /\ UNCHANGED <<proc_pc, pdeathsig, outsideTree>>

\* zygote.rs 408-413 and main.rs 323: EXIT is read and the zygote exits.
ZygoteExits ==
    /\ proc[Zygote] = "alive"
    /\ proc_pc[Zygote] = "serving"
    /\ ProcessEnds(Zygote)
    /\ UNCHANGED <<proc_pc, pdeathsig, outsideTree>>

\* The supervisor dies abruptly, at any point.
SupervisorDies ==
    /\ proc[Supervisor] = "alive"
    /\ ProcessEnds(Supervisor)
    /\ UNCHANGED <<proc_pc, pdeathsig, outsideTree>>

\* The kernel delivers a queued SIGKILL.
DeliverSigkill(p) ==
    /\ p \in sigkill_pending
    /\ ProcessEnds(p)
    /\ UNCHANGED <<proc_pc, pdeathsig, outsideTree>>

InitTree == SchedIdle /\ GuardInit /\ TreeInit /\ SessInit /\ JailIdle /\ EnvIdle /\ LaterIdle

NextTree ==
    \/ ForkZygote
    \/ ZygoteArms
    \/ ZygoteReady
    \/ \E w \in TreeWorkers : ZygoteForks(w)
    \/ \E w \in TreeWorkers : WorkerArms(w)
    \/ \E w \in TreeWorkers, ok \in BOOLEAN : WorkerIsolates(w, ok)
    \/ \E w \in TreeWorkers : WorkerExits(w)
    \/ ZygoteExits
    \/ SupervisorDies
    \/ \E p \in Processes : DeliverSigkill(p)

SpecTree == InitTree /\ [][NextTree]_vars

\* C7: after the supervisor has died, no zygote or worker lives on under a
\* dead parent unless its SIGKILL is already on the way.
C7_NoOrphanAfterSupervisorDeath ==
    proc[Supervisor] = "dead" =>
        \A p \in Processes \ {Supervisor} :
            (proc[p] = "alive" /\ proc[ParentOf(p)] = "dead") => p \in sigkill_pending


(* ------------------------------------------------------------------ *)
(* CleanupGuard (lifecycle.rs)                                         *)
(* ------------------------------------------------------------------ *)

Kill(target) == [op |-> "kill", sig |-> "SIGKILL", target |-> target]

Unlink(path) == [op |-> "unlink", path |-> path]

\* A guard that forgets the pid it is told.
set_zygote_pid_forgotten(old, pid) == old

\* set_zygote_pid: *guard = Some(pid); the new content of the field.
set_zygote_pid(old, pid) == pid

\* track_socket: sockets.push(path).
track_socket(paths, path) == Append(paths, path)

\* kill_workers: for each tracked pid > 0, SIGKILL to -pid and then to pid;
\* then SIGKILL to the zygote pid if there is one.
RECURSIVE KillWorkerCalls(_)
KillWorkerCalls(pids) ==
    IF pids = << >> THEN << >>
    ELSE (IF Head(pids) > 0
          THEN <<Kill(0 - Head(pids)), Kill(Head(pids))>>
          ELSE << >>) \o KillWorkerCalls(Tail(pids))

kill_workers(pids, zpid) ==
    KillWorkerCalls(pids) \o (IF zpid > 0 THEN <<Kill(zpid)>> ELSE << >>)

\* cleanup_sockets: remove_file on every tracked path.
cleanup_sockets(paths) == [i \in 1 .. Len(paths) |-> Unlink(paths[i])]

\* Drop with the sockets removed before the processes are killed.
GuardDropSocketsFirst(pids, zpid, paths) ==
    cleanup_sockets(paths) \o kill_workers(pids, zpid)

\* Drop for CleanupGuard: kill_workers(), then cleanup_sockets().
GuardDrop(pids, zpid, paths) == kill_workers(pids, zpid) \o cleanup_sockets(paths)

(* ------------------------------------------------------------------ *)
(* run_tests (main.rs 264-366) and the zygote it forks                 *)
(* ------------------------------------------------------------------ *)

outsideSession == <<schedVars, fleetViewVars, flagVars, treeVars, jailVars,
                    laterVars>>

workersAside == <<sess_worker, outsideSession>>

ZygLives == zyg \in {"booting", "serving"}

\* `?` on an error: run_tests returns Err.
ReturnErr ==
    /\ session_result' = "err"
    /\ sup_pc' = "return"

\* Lines 269-303: the debug server (its socket tracked in the guard), the
\* log buffers, the two socket pairs, the run context.  failing names the
\* first of them that fails.
SessionSetup(failing) ==
    /\ sup_pc = "setup"
    /\ socket_paths' = IF failing = "debug_server" THEN socket_paths
                       ELSE track_socket(socket_paths, "debug.sock")
    /\ IF failing = "none"
       THEN /\ sup_pc' = "fork"
            /\ UNCHANGED session_result
       ELSE ReturnErr
    /\ UNCHANGED <<zyg, cmd_to_sup, cmd_to_zyg, zyg_waited>>
    /\ UNCHANGED <<worker_pids, zygote_pid, kill_log, workersAside>>

\* Lines 310-329: fork()?; in the parent the zygote's ends are dropped and
\* the pid registered in the guard.
SessionFork(ok) ==
    /\ sup_pc = "fork"
    /\ IF ok
       THEN /\ zyg' = "booting"
            /\ zygote_pid' = set_zygote_pid(zygote_pid, ZygotePid)
            /\ sup_pc' = "wait_ready"
            /\ UNCHANGED session_result
       ELSE /\ ReturnErr
            /\ UNCHANGED <<zyg, zygote_pid>>
    /\ UNCHANGED <<cmd_to_sup, cmd_to_zyg, zyg_waited>>
    /\ UNCHANGED <<worker_pids, socket_paths, kill_log, workersAside>>

\* Lines 336-338: try_clone()?, then read_exact of one byte: it returns
\* the byte when there is one and fails when the zygote is gone without
\* having written it.
SessionWaitReady(clone_ok) ==
    /\ sup_pc = "wait_ready"
    /\ \/ /\ ~clone_ok
          /\ ReturnErr
          /\ UNCHANGED cmd_to_sup
       \/ /\ clone_ok
          /\ cmd_to_sup # << >>
          /\ cmd_to_sup' = Tail(cmd_to_sup)
          /\ sup_pc' = "scheduler_new"
          /\ UNCHANGED session_result
       \/ /\ clone_ok
          /\ cmd_to_sup = << >>
          /\ ~ZygLives
          /\ ReturnErr
          /\ UNCHANGED cmd_to_sup
    /\ UNCHANGED <<zyg, cmd_to_zyg, zyg_waited, guardVars, workersAside>>

\* Lines 345-350: Scheduler::new(..)?
SessionSchedulerNew(ok) ==
    /\ sup_pc = "scheduler_new"
    /\ IF ok
       THEN /\ sup_pc' = "scheduler_run"
            /\ UNCHANGED session_result
       ELSE ReturnErr
    /\ UNCHANGED <<zyg, cmd_to_sup, cmd_to_zyg, zyg_waited, guardVars, workersAside>>

\* Line 352: scheduler.run(..)?, which always returns Ok.
SessionSchedulerRun ==
    /\ sup_pc = "scheduler_run"
    /\ sup_pc' = "shutdown"
    /\ UNCHANGED <<zyg, cmd_to_sup, cmd_to_zyg, zyg_waited, session_result,
                   guardVars, workersAside>>

\* Line 355: scheduler.shutdown()? writes EXIT.  With the zygote gone the
\* write fails, unless a worker still holds the zygote's end open.
SessionShutdown(write_ok) ==
    /\ sup_pc = "shutdown"
    /\ write_ok \/ ~ZygLives
    /\ IF write_ok
       THEN /\ cmd_to_zyg' = Append(cmd_to_zyg, CMD_EXIT)
            /\ sup_pc' = "waitpid"
            /\ UNCHANGED session_result
       ELSE /\ ReturnErr
            /\ UNCHANGED cmd_to_zyg
    /\ UNCHANGED <<zyg, cmd_to_sup, zyg_waited, guardVars, workersAside>>

\* Line 356: waitpid(zygote_pid, None)? returns once the zygote has ended,
\* or fails.
SessionWaitpid(ok) ==
    /\ sup_pc = "waitpid"
    /\ IF ok
       THEN /\ ~ZygLives
            /\ zyg_waited' = TRUE
            /\ session_result' = "ok"
            /\ sup_pc' = "return"
       ELSE /\ ReturnErr
            /\ UNCHANGED zyg_waited
    /\ UNCHANGED <<zyg, cmd_to_sup, cmd_to_zyg, guardVars, workersAside>>

\* The pids the guard tracks, as a set.
TrackedPids == {worker_pids[i] : i \in 1 .. Len(worker_pids)}

\* execute_session returns and its CleanupGuard is dropped.
SessionLeave ==
    /\ sup_pc = "return"
    /\ kill_log' = kill_log \o GuardDrop(worker_pids, zygote_pid, socket_paths)
    /\ zyg' = IF ZygLives /\ zygote_pid = ZygotePid THEN "killed" ELSE zyg
    /\ sess_worker' = [t \in TestIds |->
            IF sess_worker[t] = "alive" /\ PidOf(t) \in TrackedPids
            THEN "gone" ELSE sess_worker[t]]
    /\ sup_pc' = "left"
    /\ UNCHANGED <<cmd_to_sup, cmd_to_zyg, zyg_waited, session_result>>
    /\ UNCHANGED <<worker_pids, socket_paths, zygote_pid, outsideSession>>

\* scheduler.rs 224-238 with zygote.rs 315-319: during the run the zygote
\* forks the worker of the next test id; the pid it replies is read and
\* dropped, the guard is not told.
SessionRunForks(t) ==
    /\ sup_pc = "scheduler_run"
    /\ zyg = "serving"
    /\ sess_worker[t] = "unborn"
    /\ \A u \in TestIds : u < t => sess_worker[u] # "unborn"
    /\ sess_worker' = [sess_worker EXCEPT ![t] = "alive"]
    /\ UNCHANGED <<sup_pc, zyg, cmd_to_sup, cmd_to_zyg, zyg_waited,
                   session_result, guardVars, outsideSession>>

\* zygote.rs 403: a worker exits.
SessionWorkerEnds(t) ==
    /\ sess_worker[t] = "alive"
    /\ sess_worker' = [sess_worker EXCEPT ![t] = "gone"]
    /\ UNCHANGED <<sup_pc, zyg, cmd_to_sup, cmd_to_zyg, zyg_waited,
                   session_result, guardVars, outsideSession>>

\* zygote.rs 176-270: boot; the readiness byte is written, or boot fails
\* and the zygote exits with status 1.
ZygoteBoot(ok) ==
    /\ zyg = "booting"
    /\ sup_pc # "left"
    /\ IF ok
       THEN /\ cmd_to_sup' = Append(cmd_to_sup, MSG_READY)
            /\ zyg' = "serving"
       ELSE /\ zyg' = "exited"
            /\ UNCHANGED cmd_to_sup
    /\ UNCHANGED <<sup_pc, cmd_to_zyg, zyg_waited, session_result, guardVars,
                   workersAside>>

\* zygote.rs 408-413: EXIT is read, the loop is left, the zygote exits.
ZygoteReadsExit ==
    /\ zyg = "serving"
    /\ cmd_to_zyg # << >>
    /\ Head(cmd_to_zyg) = CMD_EXIT
    /\ cmd_to_zyg' = Tail(cmd_to_zyg)
    /\ zyg' = "exited"
    /\ UNCHANGED <<sup_pc, cmd_to_sup, zyg_waited, session_result, guardVars,
                   workersAside>>

\* The zygote dies on its own account.
ZygoteCrashes ==
    /\ ZygLives
    /\ sup_pc # "left"
    /\ zyg' = "exited"
    /\ UNCHANGED <<sup_pc, cmd_to_sup, cmd_to_zyg, zyg_waited, session_result,
                   guardVars, workersAside>>

InitSession == SchedIdle /\ GuardInit /\ TreeInit /\ SessInit /\ JailIdle /\ EnvIdle /\ LaterIdle

NextSession ==
    \/ \E f \in {"none", "debug_server", "log_capture", "sockets", "run_context"} :
          SessionSetup(f)
    \/ \E ok \in BOOLEAN : SessionFork(ok)
    \/ \E ok \in BOOLEAN : SessionWaitReady(ok)
    \/ \E ok \in BOOLEAN : SessionSchedulerNew(ok)
    \/ SessionSchedulerRun
    \/ \E ok \in BOOLEAN : SessionShutdown(ok)
    \/ \E ok \in BOOLEAN : SessionWaitpid(ok)
    \/ SessionLeave
    \/ \E t \in TestIds : SessionRunForks(t)
    \/ \E t \in TestIds : SessionWorkerEnds(t)
    \/ \E ok \in BOOLEAN : ZygoteBoot(ok)
    \/ ZygoteReadsExit
    \/ ZygoteCrashes

SpecSession == InitSession /\ [][NextSession]_vars

ZygoteSigkilled ==
    \E i \in 1 .. Len(kill_log) : kill_log[i] = Kill(ZygotePid)

\* C9: a session that forked a zygote is left only after the zygote has been
\* waited for or has been sent SIGKILL by the cleanup guard.
C9_ZygoteGoneBeforeLeaving ==
    (sup_pc = "left" /\ zyg # "none") => (zyg_waited \/ ZygoteSigkilled)

\* A session left on an error path: the zygote was alive, never waited for,
\* and killed by the guard.
C9_Witness ==
    /\ sup_pc = "left"
    /\ session_result = "err"
    /\ zyg = "killed"
    /\ ~zyg_waited


(* ------------------------------------------------------------------ *)
(* The worker branch (zygote.rs 338-403) and setup_filesystem          *)
(* (isolation.rs 25-116)                                               *)
(* ------------------------------------------------------------------ *)

outsideJail == <<schedVars, fleetViewVars, flagVars, guardVars, treeVars, sessVars,
                 laterVars>>

\* setup_filesystem's fallible steps, in the order it takes them.
\* setup_filesystem with the scratch directory created after the root was
\* remounted read-only
JailStepsRemountFirst ==
    << "unshare", "mount_private", "setup_loopback",
       "bind_mount_root", "remount_root_ro", "create_base", "mount_tmpfs",
       "create_tmp_upper", "create_tmp_work", "create_proj_upper",
       "create_proj_work", "overlay_tmp", "overlay_project_root" >>

\* The steps of setup_filesystem (isolation.rs 25-116), in program order.
JailSteps ==
    << "unshare", "mount_private", "setup_loopback", "create_base",
       "bind_mount_root", "remount_root_ro", "mount_tmpfs",
       "create_tmp_upper", "create_tmp_work", "create_proj_upper",
       "create_proj_work", "overlay_tmp", "overlay_project_root" >>

LogFds == {0 - 1, 0, 1}

\* A worker that continues whatever setup_filesystem returned.
AfterSetupUnchecked(result) == "chdir"

\* zygote.rs 355-360: on Err the worker goes to exit(1), else it goes on.
AfterSetup(result) == IF result = "err" THEN "abort" ELSE "chdir"

\* zygote.rs 343-350: PR_SET_PDEATHSIG, SIGCHLD back to default.
JailWorkerArms ==
    /\ w_pc = "forked"
    /\ w_pc' = "isolate"
    /\ UNCHANGED <<w_test_id, w_log_fd, jail_done, jail_result, w_redirected,
                   test_ran, frame_written, w_exited, w_status, outsideJail>>

\* One step of setup_filesystem: it succeeds and the next one follows (Ok
\* after the last), or it fails and `?` returns Err at once.
JailStep(ok) ==
    /\ w_pc = "isolate"
    /\ jail_result = "pending"
    /\ Len(jail_done) < Len(JailSteps)
    /\ IF ok
       THEN /\ jail_done' = Append(jail_done, JailSteps[Len(jail_done) + 1])
            /\ jail_result' = IF Len(jail_done) + 1 = Len(JailSteps)
                              THEN "ok" ELSE "pending"
       ELSE /\ jail_result' = "err"
            /\ UNCHANGED jail_done
    /\ UNCHANGED <<w_pc, w_test_id, w_log_fd, w_redirected, test_ran,
                   frame_written, w_exited, w_status, outsideJail>>

\* zygote.rs 355-360: the worker looks at what setup_filesystem returned.
JailReturns ==
    /\ w_pc = "isolate"
    /\ jail_result # "pending"
    /\ w_pc' = AfterSetup(jail_result)
    /\ UNCHANGED <<w_test_id, w_log_fd, jail_done, jail_result, w_redirected,
                   test_ran, frame_written, w_exited, w_status, outsideJail>>

\* zygote.rs 358-359: the message, then std::process::exit(1).
JailAbort ==
    /\ w_pc = "abort"
    /\ w_exited' = TRUE
    /\ w_status' = 1
    /\ w_pc' = "exited"
    /\ UNCHANGED <<w_test_id, w_log_fd, jail_done, jail_result, w_redirected,
                   test_ran, frame_written, outsideJail>>

\* zygote.rs 364-369: chdir again, then redirect_output when log_fd >= 0.
JailRedirect ==
    /\ w_pc = "chdir"
    /\ w_redirected' = (w_log_fd >= 0)
    /\ w_pc' = "post_fork_init"
    /\ UNCHANGED <<w_test_id, w_log_fd, jail_done, jail_result, test_ran,
                   frame_written, w_exited, w_status, outsideJail>>

\* zygote.rs 373-393: the debug socket path and post_fork_init, both with
\* their errors dropped.
JailPostForkInit ==
    /\ w_pc = "post_fork_init"
    /\ w_pc' = "run"
    /\ UNCHANGED <<w_test_id, w_log_fd, jail_done, jail_result, w_redirected,
                   test_ran, frame_written, w_exited, w_status, outsideJail>>

\* zygote.rs 396: run_worker(&payload).
JailRunWorker ==
    /\ w_pc = "run"
    /\ test_ran' = TRUE
    /\ w_pc' = "send"
    /\ UNCHANGED <<w_test_id, w_log_fd, jail_done, jail_result, w_redirected,
                   frame_written, w_exited, w_status, outsideJail>>

\* zygote.rs 399-403: flush, write the frame (errors dropped), exit(0).
JailSendAndExit(write_ok) ==
    /\ w_pc = "send"
    /\ frame_written' = write_ok
    /\ w_exited' = TRUE
    /\ w_status' = 0
    /\ w_pc' = "exited"
    /\ UNCHANGED <<w_test_id, w_log_fd, jail_done, jail_result, w_redirected,
                   test_ran, outsideJail>>

JailInit == \E t \in TestIds : \E fd \in LogFds : JailStart(t, fd)

InitWorker ==
    /\ SchedIdle /\ GuardInit /\ TreeInit /\ SessInit /\ JailInit /\ LaterIdle
    /\ \E flag \in BOOLEAN : EnvInit(flag)

NextWorker ==
    \/ JailWorkerArms
    \/ \E ok \in BOOLEAN : JailStep(ok)
    \/ JailReturns
    \/ JailAbort
    \/ JailRedirect
    \/ JailPostForkInit
    \/ JailRunWorker
    \/ \E ok \in BOOLEAN : JailSendAndExit(ok)

SpecWorker == InitWorker /\ [][NextWorker]_vars

\* C10: a worker whose isolation setup returned an error exits with a
\* non-zero status, runs no test and writes no result frame; the test runs
\* only after every jail step has succeeded.
C10_NoTestWithoutJail ==
    /\ test_ran => jail_done = JailSteps
    /\ jail_result = "err" =>
          /\ ~test_ran
          /\ ~frame_written
          /\ w_exited => w_status # 0

\* A worker that stopped on a partially established jail and has exited.
C10_Witness ==
    /\ jail_result = "err"
    /\ jail_done # << >>
    /\ w_exited
    /\ w_status = 1

\* C11: with TACH_NO_ISOLATION=1 in the inherited environment a worker
\* performs no jail step and goes on to run its test.
C11_BypassSkipsJail ==
    TACH_NO_ISOLATION =>
        /\ jail_done = << >>
        /\ jail_result # "err"

(* ------------------------------------------------------------------ *)
(* The command socket: zygote.rs 265-270, 286-416 and                  *)
(* Scheduler::dispatch_test, scheduler.rs 204-241                      *)
(* ------------------------------------------------------------------ *)

BaseIdle ==
    SchedIdle /\ GuardInit /\ TreeInit /\ SessInit /\ JailIdle /\ EnvIdle

outsideProto == <<schedVars, fleetViewVars, flagVars, guardVars, treeVars, sessVars,
                  jailVars, envVars, snapVars, modeVars, tailVars>>

\* i32::to_le_bytes for a pid, which is not negative.
ToLeBytes(n) ==
    << n % 256, (n \div 256) % 256, (n \div 65536) % 256, (n \div 16777216) % 256 >>

\* u32::from_le_bytes
FromLeBytes(b) == b[1] + 256 * b[2] + 65536 * b[3] + 16777216 * b[4]

ForkCommand(test_id) == [cmd |-> CMD_FORK, test_id |-> test_id]

ExitCommand == [cmd |-> CMD_EXIT, test_id |-> 0]

\* zygote.rs 176-270: boot; Ok writes MSG_READY and enters the loop, an
\* error leaves entrypoint and the zygote exits (main.rs 319-322).
ProtoZygoteBoot(ok) ==
    /\ zp_pc = "boot"
    /\ IF ok
       THEN /\ sock_up' = Append(sock_up, MSG_READY)
            /\ ready_writes' = ready_writes + 1
            /\ zp_pc' = "loop"
       ELSE /\ zp_pc' = "exited"
            /\ UNCHANGED <<sock_up, ready_writes>>
    /\ UNCHANGED <<sp_pc, sp_total, sp_next, sock_down, cmds_read, forks_read,
                   pid_writes, pid_reads, outsideProto>>

\* zygote.rs 294-406: a FORK command is read with its payload.  The socket
\* pair for the worker cannot be made and `?` ends the zygote; or fork()
\* succeeds and the parent writes the child's pid; or fork() fails and the
\* zygote prints a message and reads the next command.
ProtoZygoteFork(outcome) ==
    /\ zp_pc = "loop"
    /\ sock_down # << >>
    /\ Head(sock_down).cmd = CMD_FORK
    /\ sock_down' = Tail(sock_down)
    /\ cmds_read' = cmds_read + 1
    /\ forks_read' = forks_read + 1
    /\ IF outcome = "forked"
       THEN /\ sock_up' = sock_up \o ToLeBytes(PidOf(Head(sock_down).test_id))
            /\ pid_writes' = pid_writes + 1
       ELSE UNCHANGED <<sock_up, pid_writes>>
    /\ zp_pc' = IF outcome = "pair_failed" THEN "exited" ELSE zp_pc
    /\ UNCHANGED <<sp_pc, sp_total, sp_next, ready_writes, pid_reads, outsideProto>>

\* zygote.rs 408-418: EXIT is read; the loop and the zygote end.
ProtoZygoteExit ==
    /\ zp_pc = "loop"
    /\ sock_down # << >>
    /\ Head(sock_down).cmd = CMD_EXIT
    /\ sock_down' = Tail(sock_down)
    /\ cmds_read' = cmds_read + 1
    /\ zp_pc' = "exited"
    /\ UNCHANGED <<sp_pc, sp_total, sp_next, sock_up, ready_writes, forks_read,
                   pid_writes, pid_reads, outsideProto>>

\* main.rs 336-338: read_exact of the readiness byte; it fails when the
\* zygote is gone and nothing is left to read.
ProtoSupReady ==
    /\ sp_pc = "wait_ready"
    /\ IF sock_up # << >>
       THEN /\ sock_up' = Tail(sock_up)
            /\ sp_pc' = "dispatch"
       ELSE /\ zp_pc = "exited"
            /\ sp_pc' = "failed"
            /\ UNCHANGED sock_up
    /\ UNCHANGED <<sp_total, sp_next, zp_pc, sock_down, ready_writes, cmds_read,
                   forks_read, pid_writes, pid_reads, outsideProto>>

\* scheduler.rs 221-226: dispatch_test writes FORK, the length, the payload;
\* with the zygote gone the write fails and dispatch_test returns the error.
ProtoSupSendFork ==
    /\ sp_pc = "dispatch"
    /\ sp_next < sp_total
    /\ IF zp_pc = "exited"
       THEN /\ sp_next' = sp_next + 1
            /\ UNCHANGED <<sock_down, sp_pc>>
       ELSE /\ sock_down' = Append(sock_down, ForkCommand(sp_next))
            /\ sp_pc' = "await_pid"
            /\ UNCHANGED sp_next
    /\ UNCHANGED <<sp_total, zp_pc, sock_up, ready_writes, cmds_read,
                   forks_read, pid_writes, pid_reads, outsideProto>>

\* scheduler.rs 228-229: read_exact of four bytes into pid_buf; it returns
\* when four bytes are there and fails when the zygote is gone.
ProtoSupReadPid ==
    /\ sp_pc = "await_pid"
    /\ IF Len(sock_up) >= 4
       THEN /\ pid_reads' = Append(pid_reads,
                    [test_id |-> sp_next, pid |-> FromLeBytes(SubSeq(sock_up, 1, 4))])
            /\ sock_up' = SubSeq(sock_up, 5, Len(sock_up))
       ELSE /\ zp_pc = "exited"
            /\ UNCHANGED <<pid_reads, sock_up>>
    /\ sp_next' = sp_next + 1
    /\ sp_pc' = "dispatch"
    /\ UNCHANGED <<sp_total, zp_pc, sock_down, ready_writes, cmds_read,
                   forks_read, pid_writes, outsideProto>>

\* scheduler.rs 312-315: after the run, shutdown writes EXIT; with the
\* zygote gone the write fails.
ProtoSupShutdown ==
    /\ sp_pc = "dispatch"
    /\ sp_next = sp_total
    /\ sock_down' = IF zp_pc = "exited" THEN sock_down
                    ELSE Append(sock_down, ExitCommand)
    /\ sp_pc' = IF zp_pc = "exited" THEN "failed" ELSE "done"
    /\ UNCHANGED <<sp_total, sp_next, zp_pc, sock_up, ready_writes, cmds_read,
                   forks_read, pid_writes, pid_reads, outsideProto>>

\* The zygote process dies while it serves commands.
ProtoZygoteDies ==
    /\ zp_pc = "loop"
    /\ sp_pc \notin {"done", "failed"}
    /\ zp_pc' = "exited"
    /\ UNCHANGED <<sp_pc, sp_total, sp_next, sock_down, sock_up, ready_writes,
                   cmds_read, forks_read, pid_writes, pid_reads, outsideProto>>

InitProto == BaseIdle /\ SnapIdle /\ ModeIdle /\ TailIdle /\ \E n \in 1 .. MaxTests : ProtoStart(n)

NextProto ==
    \/ \E ok \in BOOLEAN : ProtoZygoteBoot(ok)
    \/ \E outcome \in {"forked", "fork_failed", "pair_failed"} :
          ProtoZygoteFork(outcome)
    \/ ProtoZygoteDies
    \/ ProtoZygoteExit
    \/ ProtoSupReady
    \/ ProtoSupSendFork
    \/ ProtoSupReadPid
    \/ ProtoSupShutdown

SpecProto == InitProto /\ [][NextProto]_vars

\* The supervisor is inside read_exact for a pid that will not come: the
\* zygote has read every command and waits for the next one.
SupervisorLeftWaiting ==
    /\ sp_pc = "await_pid"
    /\ zp_pc = "loop"
    /\ sock_down = << >>
    /\ Len(sock_up) < 4

\* C12: the zygote writes the readiness byte once and before it reads a
\* command, then one 4-byte little-endian pid per FORK it has read; the pid
\* the supervisor reads after a FORK is that FORK's, and the supervisor is
\* never left waiting for a reply.
C12_OneReplyPerFork ==
    /\ ready_writes <= 1
    /\ cmds_read > 0 => ready_writes = 1
    /\ pid_writes = forks_read
    /\ \A i \in 1 .. Len(pid_reads) : pid_reads[i].pid = PidOf(pid_reads[i].test_id)
    /\ ~SupervisorLeftWaiting

(* ------------------------------------------------------------------ *)
(* Snapshot handshake and memory reset                                  *)
(* (zygote.rs init_snapshot_mode, reset_memory; snapshot.rs             *)
(*  SnapshotManager; rust_tests/physics_check.rs for the service loop)  *)
(* ------------------------------------------------------------------ *)

outsideSnap == <<schedVars, fleetViewVars, flagVars, guardVars, treeVars, sessVars,
                 jailVars, envVars, protoVars, modeVars, tailVars>>

MaxTestWrites == 2
MaxResets == 2
MaxReads == 2

SnapWorkerPid == PidOf(1)

workerVars == <<snap_pc, stopped, resumed_by, RESET_REGIONS, SNAPSHOT_ENABLED>>
memVars == <<mem, locked, pending_fault, reads, test_writes, resets_in_row>>
svcVars == <<svc_pc, workers, uffd_ranges>>

\* capture_region_pages: the loop that splits the bytes read into pages.
\* content gives what each page of the worker holds; page_data records the
\* range of addresses its bytes were read from and what they were.
RECURSIVE SplitIntoPagesShort(_, _, _)
SplitIntoPagesShort(region, offset, content) ==
    IF offset + PAGE_SIZE < region.len
    THEN LET page_addr == region.start + offset
             page_end == Min(offset + PAGE_SIZE, region.len)
             page_data == [from |-> region.start + offset,
                           upto |-> region.start + page_end,
                           val |-> content[align_to_page(page_addr)].val]
         IN  (page_addr :> page_data)
                 @@ SplitIntoPagesShort(region, offset + PAGE_SIZE, content)
    ELSE << >>

RECURSIVE SplitIntoPages(_, _, _)
SplitIntoPages(region, offset, content) ==
    IF offset < region.len
    THEN LET page_addr == region.start + offset
             page_end == Min(offset + PAGE_SIZE, region.len)
             page_data == [from |-> region.start + offset,
                           upto |-> region.start + page_end,
                           val |-> content[align_to_page(page_addr)].val]
         IN  (page_addr :> page_data)
                 @@ SplitIntoPages(region, offset + PAGE_SIZE, content)
    ELSE << >>

capture_region_pages(region, content) == SplitIntoPages(region, 0, content)

\* golden_pages.extend(pages) over the regions in order: a later entry
\* replaces an earlier one with the same key.
RECURSIVE CaptureAll(_, _, _)
CaptureAll(regions, i, content) ==
    IF i > Len(regions) THEN << >>
    ELSE capture_region_pages(regions[i], content)
             @@ CaptureAll(regions, i + 1, content)

SnapshotRegions(m) == SelectSeq(m, should_snapshot)

ResetFilter(r) == should_snapshot(r) /\ ~is_stack(r)

\* madvise(start, len, MADV_DONTNEED) on memory m: fails (EINVAL) when the
\* range holds a locked page, else the pages lose their backing.
MadviseFails(start, len, lk) == PagesOf(start, len) \cap lk # {}

Madvise(m, start, len, lk) ==
    IF MadviseFails(start, len, lk) THEN m
    ELSE [a \in PageAddrs |->
             IF a \in PagesOf(start, len) THEN [backed |-> FALSE, val |-> "none"]
             ELSE m[a]]

RECURSIVE ResetLoop(_, _, _, _)
ResetLoop(m, regions, i, lk) ==
    IF i > Len(regions) THEN m
    ELSE ResetLoop(Madvise(m, regions[i][1], regions[i][2], lk), regions, i + 1, lk)

\* A reset that gives a page without backing a zero page again.
reset_memory_flipping(m, enabled, regions, lk) ==
    IF ~enabled THEN m
    ELSE LET dropped == ResetLoop(m, regions, 1, lk)
         IN  [a \in PageAddrs |->
                 IF m[a].backed THEN dropped[a] ELSE [backed |-> TRUE, val |-> "zero"]]

\* reset_memory()
reset_memory(m, enabled, regions, lk) ==
    IF ~enabled THEN m ELSE ResetLoop(m, regions, 1, lk)

\* --- the worker: init_snapshot_mode -----------------------------------

\* An init_snapshot_mode that stops the worker also when the handle cannot
\* be created.
SnapCreateUffdStops(ok) ==
    /\ snap_pc = "hygiene"
    /\ snap_pc' = IF ok THEN "connect" ELSE "run_test"
    /\ stopped' = IF ok THEN stopped ELSE TRUE
    /\ UNCHANGED <<resumed_by, RESET_REGIONS, SNAPSHOT_ENABLED>>
    /\ UNCHANGED <<maps, memVars, rendezvous, available, svcVars, outsideSnap>>

\* 1. UffdBuilder::create
SnapCreateUffd(ok) ==
    /\ snap_pc = "hygiene"
    /\ snap_pc' = IF ok THEN "connect" ELSE "run_test"
    /\ UNCHANGED <<stopped, resumed_by, RESET_REGIONS, SNAPSHOT_ENABLED>>
    /\ UNCHANGED <<maps, memVars, rendezvous, available, svcVars, outsideSnap>>

\* 2. UnixStream::connect
SnapConnect(ok) ==
    /\ snap_pc = "connect"
    /\ snap_pc' = IF ok THEN "send" ELSE "run_test"
    /\ UNCHANGED <<stopped, resumed_by, RESET_REGIONS, SNAPSHOT_ENABLED>>
    /\ UNCHANGED <<maps, memVars, rendezvous, available, svcVars, outsideSnap>>

\* 3. send_fd(pid, uffd)
SnapSendFd(ok) ==
    /\ snap_pc = "send"
    /\ IF ok
       THEN /\ rendezvous' = Append(rendezvous, [pid |-> SnapWorkerPid, fd |-> "uffd"])
            /\ snap_pc' = "cache"
       ELSE /\ snap_pc' = "run_test"
            /\ UNCHANGED rendezvous
    /\ UNCHANGED <<stopped, resumed_by, RESET_REGIONS, SNAPSHOT_ENABLED>>
    /\ UNCHANGED <<maps, memVars, available, svcVars, outsideSnap>>

\* 4. cache the regions for self-reset
SnapCacheRegions(parse_ok) ==
    /\ snap_pc = "cache"
    /\ snap_pc' = "freeze"
    /\ RESET_REGIONS' =
           IF parse_ok
           THEN LET kept == SelectSeq(maps, ResetFilter)
                IN  [i \in 1 .. Len(kept) |-> <<kept[i].start, kept[i].len>>]
           ELSE RESET_REGIONS
    /\ UNCHANGED <<stopped, resumed_by, SNAPSHOT_ENABLED>>
    /\ UNCHANGED <<maps, memVars, rendezvous, available, svcVars, outsideSnap>>

\* 5. raise(SIGSTOP)
SnapFreeze ==
    /\ snap_pc = "freeze"
    /\ snap_pc' = "frozen"
    /\ stopped' = TRUE
    /\ UNCHANGED <<resumed_by, RESET_REGIONS, SNAPSHOT_ENABLED>>
    /\ UNCHANGED <<maps, memVars, rendezvous, available, svcVars, outsideSnap>>

\* 6. the worker runs again after the stop
SnapThaw ==
    /\ snap_pc = "frozen"
    /\ ~stopped
    /\ SNAPSHOT_ENABLED' = TRUE
    /\ snap_pc' = "run_test"
    /\ UNCHANGED <<stopped, resumed_by, RESET_REGIONS>>
    /\ UNCHANGED <<maps, memVars, rendezvous, available, svcVars, outsideSnap>>

Writable(a) ==
    \E i \in 1 .. Len(maps) :
        a \in PagesOf(maps[i].start, maps[i].len) /\ PermsContain(maps[i], "w")

\* The test writes to a page it has.
TestWrites(a) ==
    /\ snap_pc = "run_test"
    /\ ~stopped
    /\ test_writes < MaxTestWrites
    /\ Writable(a)
    /\ mem[a].backed
    /\ mem' = [mem EXCEPT ![a] = [backed |-> TRUE, val |-> "mutated"]]
    /\ test_writes' = test_writes + 1
    /\ UNCHANGED <<locked, pending_fault, reads, resets_in_row>>
    /\ UNCHANGED <<workerVars, maps, rendezvous, available, svcVars, outsideSnap>>

\* The test locks a page in memory (mlock).
TestLocks(a) ==
    /\ snap_pc = "run_test"
    /\ ~stopped
    /\ Writable(a)
    /\ a \notin locked
    /\ locked' = locked \cup {a}
    /\ UNCHANGED <<mem, pending_fault, reads, test_writes, resets_in_row>>
    /\ UNCHANGED <<workerVars, maps, rendezvous, available, svcVars, outsideSnap>>

\* run_worker returns
TestEnds ==
    /\ snap_pc = "run_test"
    /\ ~stopped
    /\ snap_pc' = "done"
    /\ UNCHANGED <<stopped, resumed_by, RESET_REGIONS, SNAPSHOT_ENABLED>>
    /\ UNCHANGED <<maps, memVars, rendezvous, available, svcVars, outsideSnap>>

\* the harness calls reset_memory()
SnapResetMemory ==
    /\ snap_pc \in {"done", "reset"}
    /\ ~stopped
    /\ pending_fault = {}
    /\ resets_in_row < MaxResets
    /\ mem' = reset_memory(mem, SNAPSHOT_ENABLED, RESET_REGIONS, locked)
    /\ reads' = << >>
    /\ resets_in_row' = resets_in_row + 1
    /\ snap_pc' = "reset"
    /\ UNCHANGED <<locked, pending_fault, test_writes>>
    /\ UNCHANGED <<stopped, resumed_by, RESET_REGIONS, SNAPSHOT_ENABLED>>
    /\ UNCHANGED <<maps, rendezvous, available, svcVars, outsideSnap>>

\* The worker reads an address of page a after the reset: a page with
\* backing is read, a page without backing in a registered range raises a
\* fault and blocks the worker, any other page is filled with zeros.
SnapRead(a) ==
    /\ snap_pc = "reset"
    /\ ~stopped
    /\ pending_fault = {}
    /\ Len(reads) < MaxReads
    /\ \E i \in 1 .. Len(maps) : a \in PagesOf(maps[i].start, maps[i].len)
    /\ IF mem[a].backed
       THEN /\ reads' = Append(reads, [addr |-> a, val |-> mem[a].val])
            /\ UNCHANGED <<mem, pending_fault>>
       ELSE IF a \in uffd_ranges
       THEN /\ pending_fault' = {a}
            /\ UNCHANGED <<mem, reads>>
       ELSE /\ mem' = [mem EXCEPT ![a] = [backed |-> TRUE, val |-> "zero"]]
            /\ reads' = Append(reads, [addr |-> a, val |-> "zero"])
            /\ UNCHANGED pending_fault
    /\ resets_in_row' = 0
    /\ UNCHANGED <<locked, test_writes>>
    /\ UNCHANGED <<workerVars, maps, rendezvous, available, svcVars, outsideSnap>>

\* --- the snapshot service (physics_check.rs) ---------------------------

\* accept the connection and recv_fd, when the manager is available
SvcAccept ==
    /\ svc_pc = "listening"
    /\ available
    /\ rendezvous # << >>
    /\ rendezvous' = Tail(rendezvous)
    /\ svc_pc' = "received"
    /\ UNCHANGED <<workers, uffd_ranges>>
    /\ UNCHANGED <<workerVars, maps, memVars, available, outsideSnap>>

\* waitpid(WUNTRACED) until the worker is stopped
SvcWaitStopped ==
    /\ svc_pc = "received"
    /\ stopped
    /\ svc_pc' = "register"
    /\ UNCHANGED <<workers, uffd_ranges>>
    /\ UNCHANGED <<workerVars, maps, memVars, rendezvous, available, outsideSnap>>

RegisterOutcomes == {"ok", "parse_failed", "capture_failed", "register_failed"}

\* register_worker_with_uffd, and what the service does with its result:
\* on an error the worker is killed.
SvcRegister(outcome) ==
    /\ svc_pc = "register"
    /\ IF ~available
       THEN /\ svc_pc' = "resume"
            /\ UNCHANGED <<workers, uffd_ranges, snap_pc, stopped>>
       ELSE IF outcome = "ok"
       THEN LET snapshot_regions == SnapshotRegions(maps)
                golden_pages == CaptureAll(snapshot_regions, 1, mem)
            IN  /\ workers' = (SnapWorkerPid :>
                                   [golden_pages |-> golden_pages,
                                    regions |-> snapshot_regions]) @@ workers
                /\ uffd_ranges' =
                       UNION {PagesOf(snapshot_regions[i].start, snapshot_regions[i].len) :
                                  i \in 1 .. Len(snapshot_regions)}
                /\ svc_pc' = "resume"
                /\ UNCHANGED <<snap_pc, stopped>>
       ELSE /\ svc_pc' = "failed"
            /\ snap_pc' = "killed"
            /\ stopped' = FALSE
            /\ UNCHANGED <<workers, uffd_ranges>>
    /\ UNCHANGED <<resumed_by, RESET_REGIONS, SNAPSHOT_ENABLED>>
    /\ UNCHANGED <<maps, memVars, rendezvous, available, outsideSnap>>

\* kill(pid, SIGCONT) after the registration
SvcResume ==
    /\ svc_pc = "resume"
    /\ svc_pc' = "serving"
    /\ stopped' = FALSE
    /\ resumed_by' = IF stopped THEN "supervisor" ELSE resumed_by
    /\ UNCHANGED <<workers, uffd_ranges>>
    /\ UNCHANGED <<snap_pc, RESET_REGIONS, SNAPSHOT_ENABLED>>
    /\ UNCHANGED <<maps, memVars, rendezvous, available, outsideSnap>>

\* handle_pending_faults: the golden page of the faulting address is copied
\* back, a page that is not in the snapshot is filled with zeros; the
\* worker's read then completes.
SvcHandlePendingFaults ==
    /\ svc_pc = "serving"
    /\ SnapWorkerPid \in DOMAIN workers
    /\ pending_fault # {}
    /\ LET fault_addr == CHOOSE a \in pending_fault : TRUE
           page_start == align_to_page(fault_addr)
           golden == workers[SnapWorkerPid].golden_pages
           restored == IF page_start \in DOMAIN golden
                       THEN golden[page_start].val ELSE "zero"
       IN  /\ mem' = [mem EXCEPT ![page_start] = [backed |-> TRUE, val |-> restored]]
           /\ reads' = Append(reads, [addr |-> fault_addr, val |-> restored])
    /\ pending_fault' = {}
    /\ UNCHANGED <<locked, test_writes, resets_in_row>>
    /\ UNCHANGED <<workerVars, maps, rendezvous, available, svcVars, outsideSnap>>

\* DebugServer::resume_workers: SIGCONT to every worker pid it was given.
DebuggerResumeWorkers ==
    /\ stopped
    /\ stopped' = FALSE
    /\ resumed_by' = "debugger"
    /\ UNCHANGED <<snap_pc, RESET_REGIONS, SNAPSHOT_ENABLED>>
    /\ UNCHANGED <<maps, memVars, rendezvous, available, svcVars, outsideSnap>>

InitSnap ==
    /\ BaseIdle
    /\ TailIdle
    /\ ProtoIdle
    /\ ModeIdle
    /\ \E m \in MapsLayouts, avail \in BOOLEAN : SnapStart(m, avail)

NextSnap ==
    \/ \E ok \in BOOLEAN : SnapCreateUffd(ok)
    \/ \E ok \in BOOLEAN : SnapConnect(ok)
    \/ \E ok \in BOOLEAN : SnapSendFd(ok)
    \/ \E parse_ok \in BOOLEAN : SnapCacheRegions(parse_ok)
    \/ SnapFreeze
    \/ SnapThaw
    \/ \E a \in PageAddrs : TestWrites(a)
    \/ \E a \in PageAddrs : TestLocks(a)
    \/ TestEnds
    \/ SnapResetMemory
    \/ \E a \in PageAddrs : SnapRead(a)
    \/ SvcAccept
    \/ SvcWaitStopped
    \/ \E outcome \in RegisterOutcomes : SvcRegister(outcome)
    \/ SvcResume
    \/ SvcHandlePendingFaults
    \/ DebuggerResumeWorkers

SpecSnap == InitSnap /\ [][NextSnap]_vars

\* The worker has gone past its stop.
PastTheStop == SNAPSHOT_ENABLED /\ snap_pc \in {"run_test", "done", "reset"}

\* C13: a worker that has sent its userfault handle and stopped itself runs
\* no test code until the Supervisor has registered it in the
\* SnapshotManager and then resumed it; nothing else moves it past the stop.
C13_NoTestBeforeRegistered ==
    PastTheStop =>
        /\ SnapWorkerPid \in DOMAIN workers
        /\ resumed_by = "supervisor"

\* The page of address a lies in a captured region that is not the stack.
InCapturedNonStack(a) ==
    /\ SnapWorkerPid \in DOMAIN workers
    /\ \E i \in 1 .. Len(workers[SnapWorkerPid].regions) :
           LET region == workers[SnapWorkerPid].regions[i]
           IN  ~is_stack(region) /\ a \in PagesOf(region.start, region.len)

\* C14: in snapshot mode, after a test has mutated memory and reset_memory()
\* was called, the next read of any address in a captured non-stack region
\* returns the byte captured at snapshot time.
C14_ResetRestoresGolden ==
    (/\ snap_pc = "reset"
     /\ SNAPSHOT_ENABLED
     /\ resumed_by = "supervisor"
     /\ test_writes > 0) =>
        \A i \in 1 .. Len(reads) :
            InCapturedNonStack(reads[i].addr) =>
                reads[i].val = workers[SnapWorkerPid].golden_pages[reads[i].addr].val

\* C15: calling reset_memory() twice in a row is the same as calling it
\* once: the same pages are without backing and hold the same bytes, so
\* every later read returns the same.
C15_ResetIdempotent ==
    LET once == reset_memory(mem, SNAPSHOT_ENABLED, RESET_REGIONS, locked)
        twice == reset_memory(once, SNAPSHOT_ENABLED, RESET_REGIONS, locked)
    IN  /\ twice = once
        /\ resets_in_row >= 1 => once = mem

\* reset_memory() was called twice in a row in snapshot mode after a test
\* that wrote, and pages are without backing.
C15_Witness ==
    /\ resets_in_row = 2
    /\ SNAPSHOT_ENABLED
    /\ test_writes > 0
    /\ \E a \in PageAddrs : ~mem[a].backed

CeilDiv(n, d) == (n + d - 1) \div d

\* The entries the pages of region R should have.
PageKeys(R) == {R.start + PAGE_SIZE * k : k \in 0 .. CeilDiv(R.len, PAGE_SIZE) - 1}

\* pages holds, for region R read from content, one entry per page of R.
CoversRegion(pages, R) ==
    /\ PageKeys(R) \subseteq DOMAIN pages
    /\ \A key \in PageKeys(R) :
           /\ pages[key].from = key
           /\ pages[key].upto = Min(key + PAGE_SIZE, R.end)
           /\ pages[key].upto > pages[key].from
           /\ key + PAGE_SIZE < R.end => pages[key].upto = key + PAGE_SIZE
    /\ R.start \in PageKeys(R)
    /\ \E key \in PageKeys(R) : pages[key].upto = R.end

\* C17: after a region R of length L is captured, golden_pages has exactly
\* ceil(L/4096) entries for it, keyed R.start + 4096*k for k = 0 ..
\* ceil(L/4096)-1, each holding the bytes read from the worker for that
\* page, and together they span R.start .. R.end with no gap.
C17_GoldenPagesCoverRegion ==
    /\ \A i \in 1 .. Len(maps) :
           LET R == maps[i]
               pages == capture_region_pages(R, mem)
           IN  /\ DOMAIN pages = PageKeys(R)
               /\ Cardinality(DOMAIN pages) = CeilDiv(R.len, PAGE_SIZE)
               /\ CoversRegion(pages, R)
               /\ \A key \in DOMAIN pages : pages[key].val = mem[align_to_page(key)].val
    /\ SnapWorkerPid \in DOMAIN workers =>
           LET snapshot == workers[SnapWorkerPid]
           IN  /\ \A i \in 1 .. Len(snapshot.regions) :
                      CoversRegion(snapshot.golden_pages, snapshot.regions[i])
               /\ DOMAIN snapshot.golden_pages =
                      UNION {PageKeys(snapshot.regions[i]) : i \in 1 .. Len(snapshot.regions)}

\* A worker is registered with a captured region of more than one page whose
\* length is not a whole number of pages.
C17_Witness ==
    /\ SnapWorkerPid \in DOMAIN workers
    /\ \E i \in 1 .. Len(workers[SnapWorkerPid].regions) :
           LET R == workers[SnapWorkerPid].regions[i]
           IN  /\ R.len > PAGE_SIZE
               /\ R.len % PAGE_SIZE # 0
               /\ Cardinality({key \in DOMAIN workers[SnapWorkerPid].golden_pages :
                                   key >= R.start /\ key < R.end}) = 2

(* ------------------------------------------------------------------ *)
(* A single-test session, with the snapshot handshake or without       *)
(* (main.rs run_tests, scheduler.rs Scheduler::run, zygote.rs worker)   *)
(* ------------------------------------------------------------------ *)

\* The harness post-fork initializer (tach_harness.py): it calls
\* init_snapshot_mode when a rendezvous socket was published.
ModePostForkInit ==
    /\ worker[0] = "running"
    /\ snap_pc = "forked"
    /\ snap_pc' = IF sock_published THEN "hygiene" ELSE "run_test"
    /\ UNCHANGED <<stopped, resumed_by, RESET_REGIONS, SNAPSHOT_ENABLED>>
    /\ UNCHANGED <<maps, memVars, rendezvous, available, svcVars, outsideSnap>>

\* run_worker has returned: the worker sends the result of its test and exits.
ModeWorkerFinish ==
    /\ snap_pc = "done"
    /\ WorkerFinish(0, test_outcome[0])

\* The worker has a step to take.
WorkerCanStep ==
    /\ worker[0] = "running"
    /\ \/ snap_pc \in {"forked", "hygiene", "connect", "send", "cache", "freeze",
                       "run_test", "done"}
       \/ snap_pc = "frozen" /\ ~stopped

\* A second passes while the worker has nothing to do: the test of the
\* session takes less than a second.
ModeTick == ~WorkerCanStep /\ Tick

\* The session of run_tests with one test and one slot.  The listener of
\* RunContext::new is bound and never accepted from: run_tests has no step
\* that receives a handle, registers a worker or resumes it.
InitModes ==
    /\ SchedInit
    /\ total = 1
    /\ GuardInit /\ TreeInit /\ SessInit /\ JailIdle /\ EnvIdle /\ ProtoIdle /\ TailIdle
    /\ \E m \in MapsLayouts : SnapStartAt("forked", m, FALSE)
    /\ \E outcome \in ResultStatuses, published \in BOOLEAN : ModeStart(outcome, published)

\* With one test the wait loop of Scheduler::run is never entered and no
\* shutdown is requested; the other steps of the run are all here.
NextModes ==
    \/ RunBegin
    \/ LoopDispatch
    \/ LoopEnd
    \/ FinalEnter
    \/ FinalCollect
    \/ FinalReap
    \/ RunFinish
    \/ ModePostForkInit
    \/ \E ok \in BOOLEAN : SnapCreateUffd(ok)
    \/ \E ok \in BOOLEAN : SnapConnect(ok)
    \/ \E ok \in BOOLEAN : SnapSendFd(ok)
    \/ \E parse_ok \in BOOLEAN : SnapCacheRegions(parse_ok)
    \/ SnapFreeze
    \/ TestEnds
    \/ ModeWorkerFinish
    \/ ModeTick

SpecModes == InitModes /\ [][NextModes]_vars

\* The reporter events of the session in fork-per-test mode.
FallbackEvents ==
    LET status == ReporterStatus(test_outcome[0])
    IN  << RunStart(1),
           TestStart(TestName(0)),
           TestFinished(TestName(0), status, "result"),
           RunFinished(IF status = "pass" THEN 1 ELSE 0,
                       IF status = "pass" THEN 0 ELSE 1, 0) >>

\* C16: a single-test session in which snapshot mode is unavailable
\* (fork-per-test) produces the same sequence of reporter events as the
\* same session with the snapshot handshake enabled.
C16_FallbackSameEvents ==
    pc = "finished" => events = FallbackEvents

(* ------------------------------------------------------------------ *)
(* A session whose workers all report a result                          *)
(* (scheduler.rs Scheduler::run, try_collect_result_for_reporter)       *)
(* ------------------------------------------------------------------ *)

\* protocol.rs: every status a result frame may carry.
AllStatuses == {STATUS_PASS, STATUS_FAIL, STATUS_SKIP, STATUS_CRASH, STATUS_ERROR,
                STATUS_HARNESS_ERROR}

\* The worker of test t sends the result of its test.
StatusWorkerFinish(t) ==
    /\ t < total
    /\ WorkerFinish(t, test_outcome[t])

InitStatus ==
    /\ SchedInit
    /\ total >= 1
    /\ GuardInit /\ TreeInit /\ SessInit /\ JailIdle /\ EnvIdle /\ ProtoIdle /\ SnapIdle
    /\ TailIdle
    /\ test_outcome \in [TestIds -> AllStatuses]
    /\ \A t \in TestIds : t >= total => test_outcome[t] = STATUS_PASS
    /\ sock_published = FALSE
    /\ exec_pc = "discover"
    /\ quiet = {}

\* No signal arrives, no process dies and every read of the result socket
\* ends with a frame: the steps of Scheduler::run that remain.
NextStatus ==
    \/ RunBegin
    \/ LoopEnd
    \/ LoopDispatch
    \/ LoopWait
    \/ WaitCollect
    \/ DispatchAfterWait
    \/ FinalEnter
    \/ FinalCollect
    \/ RunFinish
    \/ \E t \in TestIds : StatusWorkerFinish(t)

SpecStatus == InitStatus /\ [][NextStatus]_vars

\* The reporter status the result status should be given.
StatusWord(status) ==
    IF status = STATUS_PASS THEN "pass"
    ELSE IF status = STATUS_SKIP THEN "skip"
    ELSE "fail"

\* The tests whose result was reported.
Reported ==
    {t \in TestIds : \E i \in 1 .. Len(events) :
         /\ events[i].kind = "test_finished"
         /\ events[i].id = TestName(t)}

\* C18: the status passed to test_finished is "pass" for a passing result,
\* "skip" for a skipped one and "fail" for fail, crash, error and
\* harness_error, and the skipped count passed to run_finished is the
\* number of results with status skip.
C18_StatusAndSkipCount ==
    /\ \A i \in 1 .. Len(events), t \in TestIds :
           (events[i].kind = "test_finished" /\ events[i].id = TestName(t)) =>
               events[i].status = StatusWord(test_outcome[t])
    /\ pc = "finished" =>
           events[Len(events)].skipped =
               Cardinality({t \in Reported : test_outcome[t] = STATUS_SKIP})

(* ------------------------------------------------------------------ *)
(* execute_session: from the filtered tests to the end of the run       *)
(* (main.rs 213-245)                                                    *)
(* ------------------------------------------------------------------ *)

outsideExec == <<schedVars, fleetViewVars, flagVars, guardVars, treeVars, sessVars,
                 jailVars, envVars, protoVars, snapVars, tailVars>>

\* if filtered_tests.is_empty() { return Ok(()); }, else run_tests(..).
\* total is filtered_tests.len().
ExecFilter ==
    /\ exec_pc = "discover"
    /\ exec_pc' = IF total = 0 THEN "returned" ELSE "run_tests"
    /\ UNCHANGED <<test_outcome, sock_published, quiet, outsideExec>>

\* run_tests: a step of scheduler.run(runnable_tests, reporter) or of a worker.
ExecRunTests ==
    /\ exec_pc = "run_tests"
    /\ NextStatus

\* scheduler.run has returned and run_tests returns Ok(()).
ExecReturn ==
    /\ exec_pc = "run_tests"
    /\ pc = "finished"
    /\ exec_pc' = "returned"
    /\ UNCHANGED <<test_outcome, sock_published, quiet, outsideExec>>

InitExec ==
    /\ SchedInit
    /\ GuardInit /\ TreeInit /\ SessInit /\ JailIdle /\ EnvIdle /\ ProtoIdle /\ SnapIdle
    /\ TailIdle
    /\ \E outcome \in ResultStatuses : ModeStart(outcome, FALSE)

NextExec ==
    \/ ExecFilter
    \/ ExecRunTests
    \/ ExecReturn

SpecExec == InitExec /\ [][NextExec]_vars

\* C19: a session with zero tests emits run_start(0) immediately followed
\* by run_finished(0, 0, 0, ..), with nothing in between, and sends no FORK.
C19_EmptySessionEvents ==
    total = 0 =>
        /\ forks_sent = 0
        /\ \A i \in 1 .. Len(events) : events[i] = <<RunStart(0), RunFinished(0, 0, 0)>>[i]
        /\ Len(events) <= 2
        /\ exec_pc = "returned" => events = <<RunStart(0), RunFinished(0, 0, 0)>>

(* ------------------------------------------------------------------ *)
(* The log slots over a run (logcapture.rs, scheduler.rs 83, 126-135,   *)
(* 173-178)                                                             *)
(* ------------------------------------------------------------------ *)

\* A worker that writes output writes it to the memfd of its slot.
LogsWorkerPrint(t) ==
    /\ t \notin quiet
    /\ WorkerPrint(t)

\* The worker sends its result and exits.
LogsWorkerFinish(t) ==
    /\ t < total
    /\ WorkerFinish(t, test_outcome[t])

InitLogs ==
    /\ SchedInit
    /\ total >= 1
    /\ GuardInit /\ TreeInit /\ SessInit /\ JailIdle /\ EnvIdle /\ ProtoIdle /\ SnapIdle
    /\ TailIdle
    /\ test_outcome = [t \in TestIds |-> STATUS_PASS]
    /\ sock_published = FALSE
    /\ exec_pc = "discover"
    /\ quiet \in SUBSET (0 .. (total - 1))

\* No signal arrives and no process dies; a worker may be slow.
NextLogs ==
    \/ RunBegin
    \/ LoopEnd
    \/ LoopDispatch
    \/ LoopWait
    \/ WaitCollect
    \/ WaitNone
    \/ DispatchAfterWait
    \/ FinalEnter
    \/ FinalCollect
    \/ FinalReap
    \/ RunFinish
    \/ \E t \in TestIds : LogsWorkerPrint(t)
    \/ \E t \in TestIds : LogsWorkerFinish(t)
    \/ Tick

SpecLogs == InitLogs /\ [][NextLogs]_vars

\* The slot try_collect_result_for_reporter reads for the frame at the head
\* of the result socket.
SlotRead ==
    LET frame == Head(result_socket)
    IN  IF frame.test_id \in DOMAIN active_workers
        THEN active_workers[frame.test_id].slot ELSE 0

\* C20: when the result of a worker that wrote no output is collected,
\* reading its log slot yields the empty string, never bytes of an earlier
\* test or of another running or stale worker that used the same slot.
C20_QuietWorkerReadsEmpty ==
    [][(/\ result_socket # << >>
        /\ result_socket' = Tail(result_socket)
        /\ Head(result_socket).test_id \in quiet)
          => log_slots[SlotRead] = {}]_vars

(* ------------------------------------------------------------------ *)
(* One log slot: a worker writes, the Supervisor reads and clears       *)
(* (logcapture.rs redirect_output, read_and_clear)                      *)
(* ------------------------------------------------------------------ *)

MaxLogWrites == 3

\* The sizes of one write of the worker.
WriteSizes == {1, LOG_BUFFER_SIZE - 1, LOG_BUFFER_SIZE, LOG_BUFFER_SIZE + 1}

\* The end of the last byte of worker output in the file.
DataEnd(data) ==
    IF data = << >> THEN 0 ELSE data[Len(data)].at + data[Len(data)].len

\* write(2) of n bytes at offset o: the bytes land at o.
WriteAt(data, o, n) ==
    IF data # << >> /\ DataEnd(data) = o
    THEN [data EXCEPT ![Len(data)].len = @ + n]
    ELSE Append(data, [at |-> o, len |-> n])

\* redirect_output(fd) in the worker of the next test: lseek(fd, 0, SEEK_SET)
\* and dup2 onto stdout and stderr.  The slot was read and cleared since the
\* worker before it.
LfRedirect ==
    /\ lf_worker \in {"none", "exited"}
    /\ lf_worker = "exited" => (lf_result # << >> /\ lf_data = << >>)
    /\ lf_writes < MaxLogWrites
    /\ lf_worker' = "running"
    /\ lf_offset' = 0
    /\ lf_written' = 0
    /\ lf_result' = << >>
    /\ UNCHANGED <<lf_size, lf_data, lf_writes>>
    /\ UNCHANGED outsideLogFile

\* The worker writes n bytes to its stdout: the file has no seal and no
\* limit, so it grows when the write ends beyond its length.
LfWorkerWrites(n) ==
    /\ lf_worker = "running"
    /\ lf_writes < MaxLogWrites
    /\ lf_data' = WriteAt(lf_data, lf_offset, n)
    /\ lf_offset' = lf_offset + n
    /\ lf_size' = Max(lf_size, lf_offset + n)
    /\ lf_written' = lf_written + n
    /\ lf_writes' = lf_writes + 1
    /\ UNCHANGED <<lf_worker, lf_result>>
    /\ UNCHANGED outsideLogFile

\* The worker exits.
LfWorkerExits ==
    /\ lf_worker = "running"
    /\ lf_worker' = "exited"
    /\ UNCHANGED <<lf_size, lf_data, lf_offset, lf_written, lf_writes, lf_result>>
    /\ UNCHANGED outsideLogFile

\* The string read_to_string gives for a file of length size read from
\* offset 0, after trim_end_matches('\0'): it ends with the last byte of
\* worker output.
ReadThenTrim(size, data) == Min(DataEnd(data), size)

\* LogCapture::read_and_clear(slot), when a result is collected or a stale
\* worker is reaped: lseek to 0, read the whole file through a dup of the
\* fd, ftruncate to 0 and back to LOG_BUFFER_SIZE.
LfReadAndClear ==
    /\ lf_worker \in {"running", "exited"}
    /\ lf_result = << >>
    /\ lf_result' = << [len |-> ReadThenTrim(lf_size, lf_data),
                        written |-> lf_written,
                        prefix |-> (lf_data = << >> \/ (Len(lf_data) = 1 /\ lf_data[1].at = 0)),
                        size_after |-> LOG_BUFFER_SIZE,
                        data_after |-> << >>] >>
    /\ lf_offset' = lf_size
    /\ lf_size' = LOG_BUFFER_SIZE
    /\ lf_data' = << >>
    /\ UNCHANGED <<lf_worker, lf_written, lf_writes>>
    /\ UNCHANGED outsideLogFile

InitLogFile ==
    /\ BaseIdle /\ ProtoIdle /\ SnapIdle /\ ModeIdle
    /\ TailIdle

NextLogFile ==
    \/ LfRedirect
    \/ \E n \in WriteSizes : LfWorkerWrites(n)
    \/ LfWorkerExits
    \/ LfReadAndClear

SpecLogFile == InitLogFile /\ [][NextLogFile]_vars

\* C21: for a worker that writes more than the slot capacity (1 MiB),
\* read_and_clear returns at most 1 MiB of that output, a prefix of what was
\* written, and afterwards the slot is empty and again 1 MiB long.
C21_OutputTruncatedToSlot ==
    \A i \in 1 .. Len(lf_result) :
        lf_result[i].written > LOG_BUFFER_SIZE =>
            /\ lf_result[i].len <= LOG_BUFFER_SIZE
            /\ lf_result[i].prefix
            /\ lf_result[i].size_after = LOG_BUFFER_SIZE
            /\ lf_result[i].data_after = << >>

(* ------------------------------------------------------------------ *)
(* A value built, framed and decoded (protocol.rs, zygote.rs run_worker) *)
(* ------------------------------------------------------------------ *)

\* u32::from_le_bytes, for values below 2^31
DeU32(bs) == bs[1] + 256 * bs[2] + 65536 * bs[3] + 16777216 * bs[4]

\* u64::from_le_bytes as a wide number
DeU64(bs) == <<bs[3] + 256 * bs[4] + 65536 * bs[5] + 16777216 * bs[6], bs[1] + 256 * bs[2]>>

\* i32::from_le_bytes
DeI32(bs) ==
    IF bs[4] >= 128
    THEN (bs[1] + 256 * bs[2] + 65536 * bs[3] + 16777216 * (bs[4] - 128)) - 2147483647 - 1
    ELSE DeU32(bs)

WideInt(w) == w[1] * 65536 + w[2]

\* A String read at offset `at` of the stream b: its u64 length, then that
\* many bytes, the last of them from the fill when the head is too short.
ReadStr(b, at) ==
    LET n    == DeU64(SubSeq(b.head, at + 1, at + 8))
        rest == Len(b.head) - (at + 8)
    IN  IF WideLE(n, Wide(rest))
        THEN [val  |-> Str(SubSeq(b.head, at + 9, at + 8 + WideInt(n))),
              next |-> at + 8 + WideInt(n)]
        ELSE [val  |-> [head |-> SubSeq(b.head, at + 9, Len(b.head)),
                        fill |-> WideSub(n, Wide(rest))],
              next |-> Len(b.head)]

RECURSIVE ReadFixtures(_, _, _)
ReadFixtures(b, at, k) ==
    IF k = 0 THEN [val |-> << >>, next |-> at]
    ELSE LET name  == ReadStr(b, at)
             scope == ReadStr(b, name.next)
             more  == ReadFixtures(b, scope.next, k - 1)
         IN  [val  |-> <<[name |-> name.val, scope |-> scope.val]>> \o more.val,
              next |-> more.next]

\* bincode::deserialize::<TestResult>(bytes)
DeserializeResult(b) ==
    [kind        |-> "result",
     test_id     |-> DeU32(SubSeq(b.head, 1, 4)),
     status      |-> b.head[5],
     duration_ns |-> WideInt(DeU64(SubSeq(b.head, 6, 13))),
     message     |-> ReadStr(b, 13).val]

\* bincode::deserialize::<TestPayload>(bytes)
DeserializePayload(b) ==
    LET file_path == ReadStr(b, 4)
        test_name == ReadStr(b, file_path.next)
        count     == WideInt(DeU64(SubSeq(b.head, test_name.next + 2, test_name.next + 9)))
        fixtures  == ReadFixtures(b, test_name.next + 9, count)
    IN  [kind              |-> "payload",
         test_id           |-> DeU32(SubSeq(b.head, 1, 4)),
         file_path         |-> file_path.val,
         test_name         |-> test_name.val,
         is_async          |-> (b.head[test_name.next + 1] = 1),
         fixtures          |-> fixtures.val,
         log_fd            |-> DeI32(SubSeq(b.head, fixtures.next + 1, fixtures.next + 4)),
         debug_socket_path |-> ReadStr(b, fixtures.next + 4).val]

\* The messages of a harness or of an exception: short, around MAX_LEN,
\* with a two-byte character across MAX_LEN, and around 2^32 bytes.
Messages ==
    { Str(<< >>), Str(<<97>>), Str(Fill(MAX_LEN - 1)), Str(Fill(MAX_LEN)),
      Str(Fill(MAX_LEN + 1)), Str(Fill(MAX_LEN - 1) \o <<195, 169>>),
      [head |-> << >>, fill |-> <<65535, 65514>>],
      [head |-> <<97>>, fill |-> <<65536, 0>>] }

WireTestIds == {0, 258}

\* "PyO3 Error: "
PyO3ErrorPrefix == <<80, 121, 79, 51, 32, 69, 114, 114, 111, 114, 58, 32>>

\* run_worker, the harness returned (status, _, message)
WireRunWorkerOk(id, status, msg) ==
    /\ wire_pc = "idle"
    /\ wire_orig' = msg
    /\ wire_value' = [kind |-> "result", test_id |-> id, status |-> status,
                      duration_ns |-> 1000000, message |-> msg]
    /\ wire_pc' = "built"
    /\ UNCHANGED <<wire_frame, wire_decoded>>
    /\ UNCHANGED outsideWire

\* run_worker, the harness call failed with the exception text e
WireRunWorkerErr(id, e) ==
    /\ wire_pc = "idle"
    /\ wire_orig' = [e EXCEPT !.head = PyO3ErrorPrefix \o @]
    /\ wire_value' = [kind |-> "result", test_id |-> id, status |-> STATUS_HARNESS_ERROR,
                      duration_ns |-> 1000000,
                      message |-> [e EXCEPT !.head = PyO3ErrorPrefix \o @]]
    /\ wire_pc' = "built"
    /\ UNCHANGED <<wire_frame, wire_decoded>>
    /\ UNCHANGED outsideWire

\* TestResult::fail(test_id, duration_ns, message)
WireFail(id, msg) ==
    /\ wire_pc = "idle"
    /\ wire_orig' = msg
    /\ IF truncate_message(msg) = NoSlice
       THEN /\ wire_pc' = "panicked"
            /\ UNCHANGED wire_value
       ELSE /\ wire_pc' = "built"
            /\ wire_value' = [kind |-> "result", test_id |-> id, status |-> STATUS_FAIL,
                              duration_ns |-> 0, message |-> truncate_message(msg)]
    /\ UNCHANGED <<wire_frame, wire_decoded>>
    /\ UNCHANGED outsideWire

\* The payloads of a FORK command.
Fixtures ==
    { << >>,
      <<[name |-> Str(<<100, 98>>), scope |-> Str(<<109>>)]>>,
      <<[name |-> Str(<< >>), scope |-> Str(<<102>>)], [name |-> Str(<<120>>), scope |-> Str(<< >>)]>> }

WireLogFds == {-1, -2, 0, 5, 300, -2147483647 - 1, 2147483647}

\* The Supervisor builds the TestPayload of a test.
WirePayload(id, path, async, fx, fd, dbg) ==
    /\ wire_pc = "idle"
    /\ wire_value' = [kind |-> "payload", test_id |-> id, file_path |-> path,
                      test_name |-> Str(<<116>>), is_async |-> async, fixtures |-> fx,
                      log_fd |-> fd, debug_socket_path |-> dbg]
    /\ wire_pc' = "built"
    /\ UNCHANGED <<wire_orig, wire_frame, wire_decoded>>
    /\ UNCHANGED outsideWire

\* encode_with_length(&value)
WireEncode ==
    /\ wire_pc = "built"
    /\ wire_frame' = encode_with_length(wire_value)
    /\ wire_pc' = "framed"
    /\ UNCHANGED <<wire_value, wire_orig, wire_decoded>>
    /\ UNCHANGED outsideWire

\* bincode::deserialize(&encoded[4..])
WireDecode ==
    /\ wire_pc = "framed"
    /\ wire_decoded' = IF wire_value.kind = "result"
                       THEN DeserializeResult(wire_frame.payload)
                       ELSE DeserializePayload(wire_frame.payload)
    /\ wire_pc' = "decoded"
    /\ UNCHANGED <<wire_value, wire_orig, wire_frame>>
    /\ UNCHANGED outsideWire

InitWire ==
    /\ BaseIdle /\ ProtoIdle /\ SnapIdle /\ ModeIdle
    /\ TailIdle

NextWire ==
    \/ \E id \in WireTestIds, st \in {STATUS_PASS, STATUS_FAIL}, msg \in Messages :
           WireRunWorkerOk(id, st, msg)
    \/ \E id \in WireTestIds, e \in Messages : WireRunWorkerErr(id, e)
    \/ \E id \in WireTestIds, msg \in Messages : WireFail(id, msg)
    \/ \E id \in WireTestIds, path \in {Str(<< >>), Str(<<116, 46, 112, 121>>)},
          async \in BOOLEAN, fx \in Fixtures, fd \in WireLogFds,
          dbg \in {Str(<< >>), Str(<<47, 115>>), [head |-> <<47>>, fill |-> <<65536, 3>>]} :
           WirePayload(id, path, async, fx, fd, dbg)
    \/ WireEncode
    \/ WireDecode

SpecWire == InitWire /\ [][NextWire]_vars

\* What the message of a result on the wire has to be for the message the
\* constructor was given.
CutTo4096(orig, sent) ==
    IF WideLE(StrLen(orig), Wide(MAX_LEN))
    THEN sent = orig
    ELSE /\ StrLen(sent) = Wide(MAX_LEN + Len(TruncatedSuffix))
         /\ SubSeq(sent.head, MAX_LEN + 1, Len(sent.head)) = TruncatedSuffix
         /\ \A i \in 1 .. MAX_LEN :
                sent.head[i] = IF i <= Len(orig.head) THEN orig.head[i] ELSE FillByte

\* C22: every TestResult a worker puts on the wire has its message cut to
\* the first 4096 bytes of the original followed by "... [truncated]" exactly
\* when the original is longer, whichever path built it; a message of at
\* most 4096 bytes is sent unchanged.
C22_MessageTruncatedOnEveryPath ==
    (wire_pc \in {"framed", "decoded"} /\ wire_value.kind = "result")
        => CutTo4096(wire_orig, wire_value.message)

\* C23: the first four bytes of encode_with_length(x), read as a
\* little-endian u32, equal the number of bytes that follow them.
C23_PrefixIsPayloadLength ==
    wire_pc \in {"framed", "decoded"}
        => DeU64(wire_frame.prefix \o <<0, 0, 0, 0>>) = StrLen(wire_frame.payload)

\* C24: deserializing the bytes after the 4-byte prefix of a serialized
\* TestPayload or TestResult yields a value equal in every field, a negative
\* log_fd, an empty fixture list and empty strings included.
C24_RoundTrip ==
    wire_pc = "decoded" => wire_decoded = wire_value

C24_Witness ==
    /\ wire_pc = "decoded"
    /\ wire_value.kind = "payload"
    /\ wire_value.log_fd = -1
    /\ wire_value.fixtures = << >>
    /\ wire_value.file_path = Str(<< >>)
    /\ wire_value.debug_socket_path = Str(<< >>)
    /\ wire_decoded.log_fd = -1

(* ------------------------------------------------------------------ *)
(* The operations of the CleanupGuard on poisoned mutexes               *)
(* (lifecycle.rs 53-134)                                                *)
(* ------------------------------------------------------------------ *)

MaxGuardOps == 4

Mutexes == {"worker_pids", "socket_paths", "zygote_pid"}

GuardWorkerPids == {-1, 3, 4}

GuardZygotePids == {2}

GuardSockets == {"debug.sock", "uffd.sock"}

\* Mutex::lock(): Err(PoisonError) once a thread has panicked holding it.
lock(mx, p) == IF mx \in p THEN "Err" ELSE "Ok"

\* .unwrap(): panics on Err.
unwrap(res) == IF res = "Ok" THEN "guard" ELSE "panic"

\* .unwrap_or_else(|e| e.into_inner()): the guard either way.
unwrap_or_else_into_inner(res) == IF res = "Ok" THEN "guard" ELSE "guard"

\* track_worker: pids.push(pid)
track_worker(pids, pid) == Append(pids, pid)

\* untrack_worker: pids.retain(|&p| p != pid)
untrack_worker(pids, pid) ==
    LET Kept(p) == p # pid
    IN  SelectSeq(pids, Kept)

\* The step every operation shares: the counter, the record of the call.
GuardCalled(op, arg, mxs, ret) ==
    /\ guard_pc = "live"
    /\ guard_steps < MaxGuardOps
    /\ guard_steps' = guard_steps + 1
    /\ guard_last' = [op |-> op, arg |-> arg, ret |-> ret,
                      on_poisoned |-> (mxs \cap poisoned # {})]
    /\ UNCHANGED <<poisoned, outsideGuard>>

GuardSetZygotePid(pid) ==
    /\ GuardCalled("set_zygote_pid", <<pid>>, {"zygote_pid"}, << >>)
    /\ IF unwrap_or_else_into_inner(lock("zygote_pid", poisoned)) = "guard"
       THEN /\ zygote_pid' = set_zygote_pid(zygote_pid, pid)
            /\ UNCHANGED guard_pc
       ELSE /\ guard_pc' = "panicked"
            /\ UNCHANGED zygote_pid
    /\ UNCHANGED <<worker_pids, socket_paths, kill_log>>

GuardTrackWorker(pid) ==
    /\ GuardCalled("track_worker", <<pid>>, {"worker_pids"}, << >>)
    /\ IF unwrap_or_else_into_inner(lock("worker_pids", poisoned)) = "guard"
       THEN /\ worker_pids' = track_worker(worker_pids, pid)
            /\ UNCHANGED guard_pc
       ELSE /\ guard_pc' = "panicked"
            /\ UNCHANGED worker_pids
    /\ UNCHANGED <<zygote_pid, socket_paths, kill_log>>

GuardUntrackWorker(pid) ==
    /\ GuardCalled("untrack_worker", <<pid>>, {"worker_pids"}, << >>)
    /\ IF unwrap_or_else_into_inner(lock("worker_pids", poisoned)) = "guard"
       THEN /\ worker_pids' = untrack_worker(worker_pids, pid)
            /\ UNCHANGED guard_pc
       ELSE /\ guard_pc' = "panicked"
            /\ UNCHANGED worker_pids
    /\ UNCHANGED <<zygote_pid, socket_paths, kill_log>>

GuardTrackSocket(path) ==
    /\ GuardCalled("track_socket", <<path>>, {"socket_paths"}, << >>)
    /\ IF unwrap_or_else_into_inner(lock("socket_paths", poisoned)) = "guard"
       THEN /\ socket_paths' = track_socket(socket_paths, path)
            /\ UNCHANGED guard_pc
       ELSE /\ guard_pc' = "panicked"
            /\ UNCHANGED socket_paths
    /\ UNCHANGED <<zygote_pid, worker_pids, kill_log>>

GuardGetWorkerPids ==
    /\ IF unwrap_or_else_into_inner(lock("worker_pids", poisoned)) = "guard"
       THEN /\ GuardCalled("get_worker_pids", << >>, {"worker_pids"}, worker_pids)
            /\ UNCHANGED guard_pc
       ELSE /\ GuardCalled("get_worker_pids", << >>, {"worker_pids"}, << >>)
            /\ guard_pc' = "panicked"
    /\ UNCHANGED guardVars

\* Drop for CleanupGuard: kill_workers locks worker_pids, then zygote_pid;
\* cleanup_sockets locks socket_paths.  A lock that panics ends the drop
\* where it stands.
GuardDrops ==
    /\ GuardCalled("drop", << >>, Mutexes, << >>)
    /\ UNCHANGED <<worker_pids, socket_paths, zygote_pid>>
    /\ IF unwrap_or_else_into_inner(lock("worker_pids", poisoned)) # "guard"
       THEN /\ guard_pc' = "panicked"
            /\ UNCHANGED kill_log
       ELSE IF unwrap_or_else_into_inner(lock("zygote_pid", poisoned)) # "guard"
       THEN /\ guard_pc' = "panicked"
            /\ kill_log' = kill_log \o KillWorkerCalls(worker_pids)
       ELSE IF unwrap_or_else_into_inner(lock("socket_paths", poisoned)) # "guard"
       THEN /\ guard_pc' = "panicked"
            /\ kill_log' = kill_log \o kill_workers(worker_pids, zygote_pid)
       ELSE /\ guard_pc' = "dropped"
            /\ kill_log' = kill_log \o GuardDrop(worker_pids, zygote_pid, socket_paths)

\* A thread panics while it holds the lock of mx.
GuardPoisons(mx) ==
    /\ guard_pc = "live"
    /\ mx \notin poisoned
    /\ poisoned' = poisoned \cup {mx}
    /\ UNCHANGED <<guard_pc, guard_last, guard_steps, guardVars, outsideGuard>>

InitGuard ==
    /\ SchedIdle /\ GuardInit /\ TreeInit /\ SessInit /\ JailIdle /\ EnvIdle
    /\ ProtoIdle /\ SnapIdle /\ ModeIdle
    /\ TailIdle

NextGuard ==
    \/ \E pid \in GuardZygotePids : GuardSetZygotePid(pid)
    \/ \E pid \in GuardWorkerPids : GuardTrackWorker(pid)
    \/ \E pid \in GuardWorkerPids : GuardUntrackWorker(pid)
    \/ \E path \in GuardSockets : GuardTrackSocket(path)
    \/ GuardGetWorkerPids
    \/ GuardDrops
    \/ \E mx \in Mutexes : GuardPoisons(mx)

SpecGuard == InitGuard /\ [][NextGuard]_vars

\* The kills and removals a drop has to make for the tracked pids, the
\* zygote pid and the socket paths: stated on the log, position by position.
DropLogFor(pids, zpid, paths, log) ==
    LET kills   == {i \in 1 .. Len(log) : log[i].op = "kill"}
        unlinks == {i \in 1 .. Len(log) : log[i].op = "unlink"}
    IN  /\ \A i \in kills, j \in unlinks : i < j
        /\ \A k \in 1 .. Len(pids) :
               pids[k] > 0 =>
                   \E i \in 1 .. (Len(log) - 1) :
                       /\ log[i] = Kill(0 - pids[k])
                       /\ log[i + 1] = Kill(pids[k])
        /\ zpid > 0 => \E i \in kills : log[i] = Kill(zpid)
        /\ \A k \in 1 .. Len(paths) : \E j \in unlinks : log[j] = Unlink(paths[k])
        /\ \A i \in kills :
               \/ log[i].target = zpid
               \/ \E k \in 1 .. Len(pids) :
                      pids[k] > 0 /\ log[i].target \in {pids[k], 0 - pids[k]}

\* C25: every operation of the CleanupGuard (set_zygote_pid, track_worker,
\* untrack_worker, track_socket, get_worker_pids, the cleanup on drop)
\* completes with its normal effect, also when the mutex it locks was
\* poisoned: none panics, and each changes or returns what it does on a
\* sound mutex.
C25_PoisonedMutexIgnored ==
    [][guard_steps' = guard_steps + 1 =>
        /\ guard_pc' # "panicked"
        /\ guard_last'.op = "set_zygote_pid" => zygote_pid' = guard_last'.arg[1]
        /\ guard_last'.op = "track_worker" =>
               worker_pids' = Append(worker_pids, guard_last'.arg[1])
        /\ guard_last'.op = "untrack_worker" =>
               /\ \A i \in 1 .. Len(worker_pids') : worker_pids'[i] # guard_last'.arg[1]
               /\ Len(worker_pids') =
                      Cardinality({i \in 1 .. Len(worker_pids) :
                                      worker_pids[i] # guard_last'.arg[1]})
        /\ guard_last'.op = "track_socket" =>
               socket_paths' = Append(socket_paths, guard_last'.arg[1])
        /\ guard_last'.op = "get_worker_pids" => guard_last'.ret = worker_pids
        /\ guard_last'.op = "drop" =>
               /\ guard_pc' = "dropped"
               /\ DropLogFor(worker_pids, zygote_pid, socket_paths, kill_log')]_vars

C25_Witness ==
    /\ guard_pc = "dropped"
    /\ guard_last.on_poisoned
    /\ poisoned = Mutexes
    /\ Len(worker_pids) > 0
    /\ Len(kill_log) > 2

\* C26: when the CleanupGuard is dropped, each tracked worker pid > 0 gets
\* SIGKILL first to -pid and then to pid, the zygote pid gets SIGKILL, and
\* only after all kills are the socket files removed; a worker removed by
\* untrack_worker is not signalled.
C26_DropKillsThenUnlinks ==
    guard_pc = "dropped" => DropLogFor(worker_pids, zygote_pid, socket_paths, kill_log)

C26_Witness ==
    /\ guard_pc = "dropped"
    /\ \E i \in 1 .. Len(worker_pids) : worker_pids[i] = 4
    /\ \A i \in 1 .. Len(worker_pids) : worker_pids[i] # 3
    /\ zygote_pid = 2
    /\ socket_paths # << >>
    /\ Kill(-4) \in {kill_log[i] : i \in 1 .. Len(kill_log)}
    /\ Kill(3) \notin {kill_log[i] : i \in 1 .. Len(kill_log)}

(* ------------------------------------------------------------------ *)
(* The active-worker table of Scheduler::run (scheduler.rs 83-110,      *)
(* 167-193)                                                             *)
(* ------------------------------------------------------------------ *)

\* C27: the active-worker table holds at most max_workers entries, and
\* Scheduler::run sends a FORK only while fewer than max_workers workers are
\* active; with the table full it first collects a completion.
C27_TableAtMostMaxWorkers ==
    /\ [](Cardinality(DOMAIN active_workers) <= max_workers)
    /\ [][forks_sent' # forks_sent =>
             Cardinality(DOMAIN active_workers) < max_workers]_vars

C27_Witness ==
    /\ pc = "wait_capacity"
    /\ next_test < total
    /\ Cardinality(DOMAIN active_workers) = max_workers
    /\ forks_sent = max_workers

\* C29: a result frame whose test_id is not in the active-worker table
\* emits no test_finished, changes no counter and clears no log slot; the
\* collection of a frame clears only the slot of the test whose entry it
\* removed.
C29_UnknownFrameChangesNothing ==
    [][(result_socket # << >> /\ result_socket' = Tail(result_socket)) =>
          IF Head(result_socket).test_id \in DOMAIN active_workers
          THEN \A s \in DOMAIN log_slots :
                   s # active_workers[Head(result_socket).test_id].slot =>
                       log_slots'[s] = log_slots[s]
          ELSE /\ events' = events
               /\ passed' = passed /\ failed' = failed /\ collected' = collected
               /\ log_slots' = log_slots]_vars

(* ------------------------------------------------------------------ *)
(* The session of run_tests under fair scheduling (main.rs 298-361,     *)
(* zygote.rs 63-116)                                                    *)
(* ------------------------------------------------------------------ *)

\* The steps of Scheduler::run in the session.
ModeSchedulerStep ==
    RunBegin \/ LoopDispatch \/ LoopEnd \/ FinalEnter \/ FinalCollect \/ FinalReap \/ RunFinish

\* The steps of the worker of the session.
ModeWorkerStep ==
    \/ ModePostForkInit
    \/ \E ok \in BOOLEAN : SnapCreateUffd(ok)
    \/ \E ok \in BOOLEAN : SnapConnect(ok)
    \/ \E ok \in BOOLEAN : SnapSendFd(ok)
    \/ \E parse_ok \in BOOLEAN : SnapCacheRegions(parse_ok)
    \/ SnapFreeze
    \/ TestEnds
    \/ ModeWorkerFinish

\* The Supervisor and the worker are processes of their own and each keeps
\* running; time passes while both wait.
FairSpecModes ==
    /\ SpecModes
    /\ WF_vars(ModeSchedulerStep)
    /\ WF_vars(ModeWorkerStep)
    /\ WF_vars(ModeTick)

\* C28: every worker that sent its userfault handle and stopped itself is
\* eventually registered and resumed by the Supervisor, so that its test
\* eventually runs and the result the worker sends is reported.
C28_StoppedWorkerEventuallyResumed ==
    (snap_pc = "frozen" /\ stopped)
        ~> (/\ ~stopped
            /\ \E i \in 1 .. Len(events) :
                   events[i] = TestFinished(TestName(0), ReporterStatus(test_outcome[0]),
                                            "result"))

(* ------------------------------------------------------------------ *)
(* Result frames from the workers to the session result socket          *)
(* (zygote.rs 272-284, 321-336, 400-403)                                *)
(* ------------------------------------------------------------------ *)

RelayPayloadLen == 2

\* The serialized result of worker w: its bytes tell the worker.
RelayPayload(w) == [i \in 1 .. RelayPayloadLen |-> 10 * w + i]

\* encode_with_length(&result) of worker w
RelayFrame(w) == LeU32(RelayPayloadLen) \o RelayPayload(w)

FrameLen == 4 + RelayPayloadLen

\* Where a write may stop: inside the prefix, after it, inside the payload,
\* at the end.
WritePoints == {2, 4, 5, FrameLen}

\* A collecting thread that passes on whatever it has read.
relay_send_partial(buf, complete) == IF buf # << >> THEN <<buf>> ELSE << >>

\* What the collecting thread sends on the channel: the whole frame once
\* both reads have succeeded, nothing otherwise.
relay_send(buf, complete) == IF complete THEN <<buf>> ELSE << >>

\* zygote.rs 310-337: the socket pair, the fork, the collecting thread.
RlFork(w) ==
    /\ rl_worker[w] = "unborn"
    /\ rl_worker' = [rl_worker EXCEPT ![w] = "running"]
    /\ rl_relay' = [rl_relay EXCEPT ![w] = [pc |-> "len", buf |-> << >>]]
    /\ UNCHANGED <<rl_sent, rl_pair, rl_chan, rl_fwd, rl_session, outsideRelay>>

\* zygote.rs 400-402: write_all of the frame, up to the next point p.
RlWorkerWrites(w, p) ==
    /\ rl_worker[w] = "running"
    /\ p > rl_sent[w]
    /\ rl_pair' = [rl_pair EXCEPT ![w] = @ \o SubSeq(RelayFrame(w), rl_sent[w] + 1, p)]
    /\ rl_sent' = [rl_sent EXCEPT ![w] = p]
    /\ UNCHANGED <<rl_worker, rl_relay, rl_chan, rl_fwd, rl_session, outsideRelay>>

\* zygote.rs 403: process::exit(0) after the whole frame.
RlWorkerExits(w) ==
    /\ rl_worker[w] = "running"
    /\ rl_sent[w] = FrameLen
    /\ rl_worker' = [rl_worker EXCEPT ![w] = "exited"]
    /\ UNCHANGED <<rl_sent, rl_pair, rl_relay, rl_chan, rl_fwd, rl_session, outsideRelay>>

\* The worker dies before its frame is written whole.
RlWorkerDies(w) ==
    /\ rl_worker[w] = "running"
    /\ rl_sent[w] < FrameLen
    /\ rl_worker' = [rl_worker EXCEPT ![w] = "died"]
    /\ UNCHANGED <<rl_sent, rl_pair, rl_relay, rl_chan, rl_fwd, rl_session, outsideRelay>>

\* The bytes read_exact still wants.
RelayWants(w) ==
    IF rl_relay[w].pc = "len" THEN 4 - Len(rl_relay[w].buf)
    ELSE 4 + DeU32(SubSeq(rl_relay[w].buf, 1, 4)) - Len(rl_relay[w].buf)

\* zygote.rs 321-336: read_exact takes what the pair holds, up to what it
\* wants; with the length read it goes on to the payload, with the payload
\* read the whole vector is sent on the channel.
RlRelayReads(w) ==
    /\ rl_relay[w].pc \in {"len", "payload"}
    /\ rl_pair[w] # << >>
    /\ LET take == Min(RelayWants(w), Len(rl_pair[w]))
           buf  == rl_relay[w].buf \o SubSeq(rl_pair[w], 1, take)
           full == take = RelayWants(w)
       IN  /\ rl_pair' = [rl_pair EXCEPT ![w] = SubSeq(@, take + 1, Len(@))]
           /\ IF full /\ rl_relay[w].pc = "len" /\ DeU32(SubSeq(buf, 1, 4)) > 0
              THEN /\ rl_relay' = [rl_relay EXCEPT ![w] = [pc |-> "payload", buf |-> buf]]
                   /\ UNCHANGED rl_chan
              ELSE IF full
              THEN /\ rl_relay' = [rl_relay EXCEPT ![w] = [pc |-> "done", buf |-> << >>]]
                   /\ rl_chan' = rl_chan \o relay_send(buf, TRUE)
              ELSE /\ rl_relay' = [rl_relay EXCEPT ![w].buf = buf]
                   /\ UNCHANGED rl_chan
    /\ UNCHANGED <<rl_worker, rl_sent, rl_fwd, rl_session, outsideRelay>>

\* read_exact meets the end of the stream: the worker is gone and the pair
\* is empty.  The thread ends.
RlRelayEof(w) ==
    /\ rl_relay[w].pc \in {"len", "payload"}
    /\ rl_pair[w] = << >>
    /\ rl_worker[w] \in {"exited", "died"}
    /\ rl_relay' = [rl_relay EXCEPT ![w] = [pc |-> "done", buf |-> << >>]]
    /\ rl_chan' = rl_chan \o relay_send(rl_relay[w].buf, FALSE)
    /\ UNCHANGED <<rl_worker, rl_sent, rl_pair, rl_fwd, rl_session, outsideRelay>>

\* zygote.rs 279: result_rx.recv() hands the next vector to the forwarder.
RlForwardRecv ==
    /\ rl_fwd.data = << >>
    /\ rl_chan # << >>
    /\ rl_fwd' = [data |-> Head(rl_chan), written |-> 0]
    /\ rl_chan' = Tail(rl_chan)
    /\ UNCHANGED <<rl_worker, rl_sent, rl_pair, rl_relay, rl_session, outsideRelay>>

\* zygote.rs 280: socket.write_all(&data), up to the next point p.
RlForwardWrites(p) ==
    /\ rl_fwd.data # << >>
    /\ p > rl_fwd.written
    /\ p <= Len(rl_fwd.data)
    /\ rl_session' = rl_session \o SubSeq(rl_fwd.data, rl_fwd.written + 1, p)
    /\ rl_fwd' = IF p = Len(rl_fwd.data) THEN [data |-> << >>, written |-> 0]
                 ELSE [rl_fwd EXCEPT !.written = p]
    /\ UNCHANGED <<rl_worker, rl_sent, rl_pair, rl_relay, rl_chan, outsideRelay>>

InitRelay ==
    /\ BaseIdle /\ ProtoIdle /\ SnapIdle /\ ModeIdle
    /\ TailIdle

NextRelay ==
    \/ \E w \in RelayWorkers : RlFork(w)
    \/ \E w \in RelayWorkers, p \in WritePoints : RlWorkerWrites(w, p)
    \/ \E w \in RelayWorkers : RlWorkerExits(w)
    \/ \E w \in RelayWorkers : RlWorkerDies(w)
    \/ \E w \in RelayWorkers : RlRelayReads(w)
    \/ \E w \in RelayWorkers : RlRelayEof(w)
    \/ RlForwardRecv
    \/ \E p \in 1 .. FrameLen : RlForwardWrites(p)

SpecRelay == InitRelay /\ [][NextRelay]_vars

\* bytes is a run of whole frames of the workers, the last one possibly
\* still being written.
RECURSIVE WholeFrames(_)
WholeFrames(bytes) ==
    IF Len(bytes) < FrameLen
    THEN \E w \in RelayWorkers : bytes = SubSeq(RelayFrame(w), 1, Len(bytes))
    ELSE /\ \E w \in RelayWorkers : SubSeq(bytes, 1, FrameLen) = RelayFrame(w)
         /\ WholeFrames(SubSeq(bytes, FrameLen + 1, Len(bytes)))

\* C30: the result frames of workers that finish concurrently appear on the
\* session result socket as whole frames, never interleaved, and a worker
\* that dies after writing part of a frame contributes no bytes.
C30_WholeFramesOnly ==
    /\ WholeFrames(rl_session)
    /\ \A w \in RelayWorkers :
           rl_worker[w] = "died" =>
               \A i \in 1 .. Len(rl_session) :
                   \A j \in 1 .. RelayPayloadLen : rl_session[i] # RelayPayload(w)[j]

C30_Witness ==
    /\ rl_worker[1] = "died" /\ rl_sent[1] = 5
    /\ rl_relay[1].pc = "done"
    /\ rl_worker[2] = "exited"
    /\ rl_session = RelayFrame(2)

(* ------------------------------------------------------------------ *)
(* The Scheduler reads result frames (scheduler.rs 42-43, 154-202)       *)
(* ------------------------------------------------------------------ *)

MaxReaderCalls == 3

\* The bytes of the result socket not yet read.
RdAvailable == Len(rl_session) - rd_pos

\* The bytes the read_exact in progress still wants.
RdWants ==
    IF rd_pc = "len" THEN 4 - Len(rd_buf)
    ELSE DeU32(SubSeq(rd_buf, 1, 4)) - (Len(rd_buf) - 4)

\* try_collect_result_for_reporter is called: read_exact(&mut len_buf)
\* starts on a fresh buffer.
RdCall ==
    /\ rd_pc = "idle"
    /\ rd_calls < MaxReaderCalls
    /\ rd_calls' = rd_calls + 1
    /\ rd_pc' = "len"
    /\ rd_buf' = << >>
    /\ rd_elapsed' = 0
    /\ UNCHANGED <<rd_pos, outsideReader>>

\* A read() of read_exact returns the bytes at hand, up to what is wanted.
\* With the prefix whole the payload buffer is allocated and read; with the
\* payload whole the call returns.
RdRead ==
    /\ rd_pc \in {"len", "payload"}
    /\ RdAvailable > 0
    /\ LET take == Min(RdWants, RdAvailable)
           buf  == rd_buf \o SubSeq(rl_session, rd_pos + 1, rd_pos + take)
       IN  /\ rd_pos' = rd_pos + take
           /\ IF take < RdWants
              THEN rd_pc' = rd_pc /\ rd_buf' = buf
              ELSE IF rd_pc = "len" /\ DeU32(SubSeq(buf, 1, 4)) > 0
              THEN rd_pc' = "payload" /\ rd_buf' = buf
              ELSE rd_pc' = "idle" /\ rd_buf' = << >>
    /\ rd_elapsed' = 0
    /\ UNCHANGED <<rd_calls, outsideReader>>

\* A second passes with nothing to read.
RdTick ==
    /\ rd_pc \in {"len", "payload"}
    /\ RdAvailable = 0
    /\ rd_elapsed < READ_TIMEOUT_SECS
    /\ rd_elapsed' = rd_elapsed + 1
    /\ UNCHANGED <<rd_pc, rd_buf, rd_pos, rd_calls, outsideReader>>

\* The read timeout set in Scheduler::new expires: read_exact returns Err,
\* the call returns None and its buffers are dropped.
RdTimeout ==
    /\ rd_pc \in {"len", "payload"}
    /\ RdAvailable = 0
    /\ rd_elapsed >= READ_TIMEOUT_SECS
    /\ rd_pc' = "idle"
    /\ rd_buf' = << >>
    /\ rd_elapsed' = 0
    /\ UNCHANGED <<rd_pos, rd_calls, outsideReader>>

InitReader ==
    /\ BaseIdle /\ ProtoIdle /\ SnapIdle /\ ModeIdle
    /\ TailIdle

\* The zygote's relay writes the stream, the Scheduler reads it.
NextReader ==
    \/ NextRelay
    \/ RdCall
    \/ RdRead
    \/ RdTick
    \/ RdTimeout

SpecReader == InitReader /\ [][NextReader]_vars

\* C31: reading a result frame never desynchronises the stream: when a read
\* of the prefix or of the payload is cut short, the bytes consumed are kept
\* and the read resumed, so that every frame is parsed from its own length
\* prefix: the bytes a call holds as prefix and payload start at a frame
\* boundary of the stream.
C31_ReadsStayOnFrameBoundaries ==
    (rd_pos - Len(rd_buf)) % FrameLen = 0

(* ------------------------------------------------------------------ *)
(* A FORK payload that does not deserialize (zygote.rs 294-309,         *)
(* scheduler.rs 224-229)                                                *)
(* ------------------------------------------------------------------ *)

\* zygote.rs 294-309: the FORK command and its payload are read,
\* bincode::deserialize fails, the error is printed and `continue` reads
\* the next command: no socket pair, no fork, no pid written.
ProtoZygoteBadPayload ==
    /\ zp_pc = "loop"
    /\ sock_down # << >>
    /\ Head(sock_down).cmd = CMD_FORK
    /\ sock_down' = Tail(sock_down)
    /\ cmds_read' = cmds_read + 1
    /\ forks_read' = forks_read + 1
    /\ zp_skipped' = zp_skipped \cup {Head(sock_down).test_id}
    /\ UNCHANGED <<sp_pc, sp_total, sp_next, zp_pc, sock_up, ready_writes, pid_writes,
                   pid_reads, outsideSkip>>

\* The steps of the zygote in the command protocol.
ProtoZygoteStep ==
    \/ \E ok \in BOOLEAN : ProtoZygoteBoot(ok)
    \/ \E outcome \in {"forked", "fork_failed", "pair_failed"} : ProtoZygoteFork(outcome)
    \/ ProtoZygoteBadPayload
    \/ ProtoZygoteExit

\* The steps of the Supervisor in the command protocol.
ProtoSupStep ==
    ProtoSupReady \/ ProtoSupSendFork \/ ProtoSupReadPid \/ ProtoSupShutdown

NextSkip == ProtoZygoteStep \/ ProtoSupStep \/ ProtoZygoteDies

SpecSkip == InitProto /\ [][NextSkip]_vars

\* Both processes keep running; nothing makes the zygote die.
FairSpecSkip == SpecSkip /\ WF_vars(ProtoZygoteStep) /\ WF_vars(ProtoSupStep)

\* C32: when the payload of a FORK command fails to deserialize the zygote
\* forks no worker for it and stays in its command loop, and the FORK
\* commands of the following tests are still served: the Supervisor gets
\* through its queue to the end of the run.
C32_SkippedForkDoesNotStopTheRun ==
    /\ [][zp_skipped' # zp_skipped => (pid_writes' = pid_writes /\ zp_pc' = "loop")]_vars
    /\ (zp_skipped # {}) ~> (sp_pc \in {"done", "failed"})

(* ------------------------------------------------------------------ *)
(* The session when init_snapshot_mode fails (zygote.rs 41-82, 124-129, *)
(* 384-403)                                                             *)
(* ------------------------------------------------------------------ *)

\* reset_memory() is called after the test, before the result is sent.
ModeResetMemory ==
    /\ snap_pc = "done"
    /\ worker[0] = "running"
    /\ resets_in_row < MaxResets
    /\ mem' = reset_memory(mem, SNAPSHOT_ENABLED, RESET_REGIONS, locked)
    /\ resets_in_row' = resets_in_row + 1
    /\ UNCHANGED <<locked, pending_fault, reads, test_writes>>
    /\ UNCHANGED <<workerVars, maps, rendezvous, available, svcVars, outsideSnap>>

\* The session of SpecModes with a test that writes to its memory and a
\* harness that calls reset_memory().
NextDegrade ==
    \/ ModeSchedulerStep
    \/ ModeWorkerStep
    \/ \E a \in PageAddrs : TestWrites(a)
    \/ ModeResetMemory
    \/ ModeTick

SpecDegrade == InitModes /\ [][NextDegrade]_vars

FairSpecDegrade ==
    /\ SpecDegrade
    /\ WF_vars(ModeSchedulerStep)
    /\ WF_vars(ModeWorkerStep)
    /\ WF_vars(ModeTick)

\* The result the worker sent has been reported.
ResultReported ==
    /\ worker[0] = "exited"
    /\ \E i \in 1 .. Len(events) :
           events[i] = TestFinished(TestName(0), ReporterStatus(test_outcome[0]), "result")

\* C33: if creating the userfault handle, connecting to the rendezvous
\* socket or sending the handle fails, init_snapshot_mode returns without
\* stopping the worker; snapshot mode stays disabled in that worker, a later
\* reset_memory() invalidates no memory, and the worker still runs its test,
\* writes its result and exits.
C33_FailedInitDegrades ==
    /\ [][(snap_pc \in {"hygiene", "connect", "send"} /\ snap_pc' = "run_test")
             => (~stopped' /\ ~SNAPSHOT_ENABLED')]_vars
    /\ [](snap_pc \in {"run_test", "done"} => (~stopped /\ ~SNAPSHOT_ENABLED))
    /\ [][resets_in_row' # resets_in_row => mem' = mem]_vars
    /\ (snap_pc = "run_test") ~> ResultReported

C33_Witness ==
    /\ sock_published
    /\ rendezvous = << >>
    /\ resets_in_row > 0
    /\ \E a \in PageAddrs : mem[a].val = "mutated"
    /\ ResultReported

\* Everything before the parts at the end of the module, at rest.
BeforeFinalIdle ==
    /\ BaseIdle /\ ProtoIdle /\ SnapIdle /\ ModeIdle
    /\ LogFileStart /\ WireIdle /\ GuardOpsIdle /\ RelayStart
    /\ ReaderStart /\ zp_skipped = {}

\* ----------------------------------------------------------------------
\* SnapshotManager::handle_pending_faults (snapshot.rs), one call at a time,
\* with fault addresses anywhere inside a page.
\* ----------------------------------------------------------------------

MaxFaultEvents == 2

\* Offsets of a fault address inside its page.
FaultOffsets == {0, PAGE_SIZE - 1}

FaultAddrs == {p + o : p \in PageAddrs, o \in FaultOffsets}

\* userfaultfd::Event, as far as the loop distinguishes its variants.
Pagefault(addr) == [kind |-> "pagefault", addr |-> addr]
OtherEvent == [kind |-> "other", addr |-> 0]

\* The ioctl the loop issues for a page fault at fault_addr: uffd.copy of the
\* golden page when page_start is a key of golden_pages, uffd.zeropage
\* otherwise, both with wake = true.
FaultIoctl(fault_addr, golden_pages, succeeds) ==
    LET page_start == align_to_page(fault_addr)
    IN  IF page_start \in golden_pages
        THEN [op |-> "copy", src |-> page_start, dst |-> page_start,
              len |-> PAGE_SIZE, wake |-> TRUE, ok |-> succeeds]
        ELSE [op |-> "zeropage", src |-> 0, dst |-> page_start,
              len |-> PAGE_SIZE, wake |-> TRUE, ok |-> succeeds]

\* The loop of handle_pending_faults over the readable events. how says how
\* the loop ends: "drained" (read_event returns Ok(None) after the last
\* event), "read_err" (read_event returns Err after cut events) or
\* "ioctl_err" (the ioctl for the first page fault after cut events fails and
\* `?` returns the error).
RECURSIVE PollLoop(_, _, _, _, _)
PollLoop(evs, golden_pages, how, cut, st) ==
    IF evs = << >> \/ (how = "read_err" /\ Len(st.consumed) = cut)
    THEN [st EXCEPT !.ret = [called |-> TRUE, ok |-> TRUE, handled |-> st.handled]]
    ELSE LET event == Head(evs)
             read == [st EXCEPT !.consumed = Append(@, event), !.rest = Tail(evs)]
         IN  IF event.kind = "pagefault"
             THEN IF how = "ioctl_err" /\ Len(st.consumed) >= cut
                  THEN [read EXCEPT
                            !.ioctls = Append(@, FaultIoctl(event.addr, golden_pages, FALSE)),
                            !.ret = [called |-> TRUE, ok |-> FALSE, handled |-> 0]]
                  ELSE PollLoop(Tail(evs), golden_pages, how, cut,
                                [read EXCEPT
                                     !.ioctls = Append(@, FaultIoctl(event.addr,
                                                                     golden_pages, TRUE)),
                                     !.handled = @ + 1])
             ELSE PollLoop(Tail(evs), golden_pages, how, cut, read)

handle_pending_faults(registered, evs, golden_pages, how, cut) ==
    IF ~registered
    THEN [consumed |-> << >>, rest |-> evs, ioctls |-> << >>, handled |-> 0,
          ret |-> [called |-> TRUE, ok |-> FALSE, handled |-> 0]]
    ELSE PollLoop(evs, golden_pages, how, cut,
                  [consumed |-> << >>, rest |-> evs, ioctls |-> << >>,
                   handled |-> 0, ret |-> NoCall])

\* A thread of the worker touches a missing page of a registered range.
UfFault(addr) ==
    /\ uf_registered
    /\ Len(uf_events) < MaxFaultEvents
    /\ uf_events' = Append(uf_events, Pagefault(addr))
    /\ UNCHANGED <<uf_registered, uf_golden, uf_consumed, uf_ioctls, uf_ret>>
    /\ UNCHANGED <<beforeFinal, filterVars, debugVars, resolveVars>>

\* The kernel queues an event that is not a page fault (fork, remap, unmap).
UfOtherEvent ==
    /\ uf_registered
    /\ Len(uf_events) < MaxFaultEvents
    /\ uf_events' = Append(uf_events, OtherEvent)
    /\ UNCHANGED <<uf_registered, uf_golden, uf_consumed, uf_ioctls, uf_ret>>
    /\ UNCHANGED <<beforeFinal, filterVars, debugVars, resolveVars>>

PollEnds == {"drained", "read_err", "ioctl_err"}

UfHandlePendingFaults(how, cut) ==
    /\ cut <= Len(uf_events)
    /\ how = "drained" => cut = Len(uf_events)
    /\ LET call == handle_pending_faults(uf_registered, uf_events, uf_golden, how, cut)
       IN  /\ uf_events' = call.rest
           /\ uf_consumed' = call.consumed
           /\ uf_ioctls' = call.ioctls
           /\ uf_ret' = call.ret
    /\ UNCHANGED <<uf_registered, uf_golden>>
    /\ UNCHANGED <<beforeFinal, filterVars, debugVars, resolveVars>>

InitFaults ==
    /\ BeforeFinalIdle /\ FilterIdle /\ DebugIdle /\ ResolveIdle
    /\ uf_registered \in BOOLEAN
    /\ uf_golden \in SUBSET PageAddrs
    /\ uf_registered = FALSE => uf_golden = {}
    /\ uf_events = << >>
    /\ uf_consumed = << >>
    /\ uf_ioctls = << >>
    /\ uf_ret = NoCall

NextFaults ==
    \/ \E addr \in FaultAddrs : UfFault(addr)
    \/ UfOtherEvent
    \/ \E how \in PollEnds, cut \in 0 .. MaxFaultEvents : UfHandlePendingFaults(how, cut)

SpecFaults == InitFaults /\ [][NextFaults]_vars

\* The page-fault events among a sequence of events.
PagefaultsOf(evs) == SelectSeq(evs, LAMBDA e : e.kind = "pagefault")

\* C34: every page-fault event a call of handle_pending_faults reads is
\* answered by one ioctl on the page holding the fault address (the address
\* with its low 12 bits cleared), a copy of the golden page when that page is
\* a key of golden_pages and a zero page otherwise, with the wake flag set;
\* a call that returns Ok returns the number of page faults it resolved.
C34_FaultsResolvedAtTheirPage ==
    uf_ret.called =>
        LET faults == PagefaultsOf(uf_consumed)
        IN  /\ Len(uf_ioctls) = Len(faults)
            /\ \A i \in 1 .. Len(faults) :
                   LET io == uf_ioctls[i]
                       fault_addr == faults[i].addr
                   IN  /\ io.dst % PAGE_SIZE = 0
                       /\ io.dst <= fault_addr /\ fault_addr < io.dst + PAGE_SIZE
                       /\ io.len = PAGE_SIZE
                       /\ io.wake
                       /\ (io.op = "copy") <=> (io.dst \in uf_golden)
                       /\ io.op = "copy" => io.src = io.dst
                       /\ io.op \in {"copy", "zeropage"}
            /\ uf_ret.ok =>
                   /\ uf_ret.handled = Len(faults)
                   /\ \A i \in 1 .. Len(uf_ioctls) : uf_ioctls[i].ok

\* A call answered a fault inside a golden page and a fault inside a page
\* that is not in the snapshot, and returned 2.
C34_Witness ==
    /\ uf_ret.called /\ uf_ret.ok /\ uf_ret.handled = 2
    /\ \E i, j \in 1 .. Len(uf_ioctls) :
           /\ uf_ioctls[i].op = "copy" /\ uf_ioctls[j].op = "zeropage"
    /\ \E i \in 1 .. Len(uf_consumed) :
           uf_consumed[i].kind = "pagefault" /\ uf_consumed[i].addr % PAGE_SIZE # 0

\* ----------------------------------------------------------------------
\* The regions reset_memory() invalidates (zygote.rs), against the regions
\* the Supervisor captures (snapshot.rs).
\* ----------------------------------------------------------------------

\* The regions reset_memory() passes to madvise(MADV_DONTNEED).
Invalidated ==
    IF SNAPSHOT_ENABLED
    THEN {RESET_REGIONS[i] : i \in 1 .. Len(RESET_REGIONS)}
    ELSE {}

\* The snapshot-eligible regions of the worker that are not the stack.
EligibleNotStack ==
    {<<maps[i].start, maps[i].len>> :
         i \in {j \in 1 .. Len(maps) : should_snapshot(maps[j]) /\ ~is_stack(maps[j])}}

StackRegions == {<<maps[i].start, maps[i].len>> : i \in {j \in 1 .. Len(maps) : is_stack(maps[j])}}

Captured ==
    IF SnapWorkerPid \in DOMAIN workers
    THEN {<<workers[SnapWorkerPid].regions[i].start, workers[SnapWorkerPid].regions[i].len>> :
              i \in 1 .. Len(workers[SnapWorkerPid].regions)}
    ELSE {}

\* The stack is captured by the Supervisor and never invalidated.
StackCapturedNotInvalidated ==
    /\ Invalidated \cap StackRegions = {}
    /\ SnapWorkerPid \in DOMAIN workers => StackRegions \subseteq Captured

\* C35: the regions a worker invalidates in reset_memory() are exactly the
\* snapshot-eligible regions that are not the stack; the stack is among the
\* regions the Supervisor captures and is never passed to the advisory.
C35_ResetSetIsEligibleMinusStack ==
    (snap_pc = "reset" /\ SNAPSHOT_ENABLED) =>
        /\ Invalidated = EligibleNotStack
        /\ StackCapturedNotInvalidated

\* The same, for the workers whose own reading of the memory maps succeeded.
ResetSetWhenMapsWereParsed ==
    (snap_pc = "reset" /\ SNAPSHOT_ENABLED /\ (RESET_REGIONS # << >> \/ EligibleNotStack = {})) =>
        /\ Invalidated = EligibleNotStack
        /\ StackCapturedNotInvalidated

\* ----------------------------------------------------------------------
\* MemoryRegion::should_snapshot as a function of the permissions and the
\* path name of a line of /proc/<pid>/maps.
\* ----------------------------------------------------------------------

\* The permission columns of /proc/<pid>/maps.
PermsColumns ==
    { <<"r", "w", "-", "p">>, <<"r", "w", "-", "s">>, <<"r", "-", "-", "p">>,
      <<"r", "-", "x", "p">>, <<"r", "-", "-", "s">>, <<"r", "w", "x", "p">> }

\* The path names, by the substrings should_snapshot looks for in them.
PathNames ==
    { {}, {"other"}, {"[heap]"}, {"[stack]"}, {"[vdso]"}, {"[vsyscall]"},
      {"libpython"} }

MaxRegionPages == 2

FilterApply ==
    /\ ~ss_applied
    /\ ss_applied' = TRUE
    /\ ss_result' = should_snapshot(ss_region)
    /\ UNCHANGED ss_region
    /\ UNCHANGED <<beforeFinal, faultVars, debugVars, resolveVars>>

InitFilter ==
    /\ BeforeFinalIdle /\ FaultsIdle /\ DebugIdle /\ ResolveIdle
    /\ \E perms \in PermsColumns, name \in PathNames, n \in 1 .. MaxRegionPages :
           ss_region = Region(PAGE_SIZE, n * PAGE_SIZE, perms, name)
    /\ ss_applied = FALSE
    /\ ss_result = FALSE

NextFilter == FilterApply

SpecFilter == InitFilter /\ [][NextFilter]_vars

\* C36: should_snapshot returns true if and only if the region is writable
\* and private, is not a vDSO or vsyscall page, and is the heap, the stack,
\* an anonymous private mapping or a writable segment of the interpreter's
\* shared object.
C36_SnapshotIffWritablePrivate ==
    ss_applied =>
        (ss_result <=>
            /\ PermsContain(ss_region, "w")
            /\ PermsContain(ss_region, "p")
            /\ "[vdso]" \notin ss_region.name /\ "[vsyscall]" \notin ss_region.name
            /\ \/ "[heap]" \in ss_region.name
               \/ "[stack]" \in ss_region.name
               \/ ss_region.name = {}
               \/ "libpython" \in ss_region.name)

\* The same for the regions that are private.
SnapshotIffWritableAmongPrivate ==
    (ss_applied /\ PermsContain(ss_region, "p")) =>
        (ss_result <=>
            /\ PermsContain(ss_region, "w")
            /\ "[vdso]" \notin ss_region.name /\ "[vsyscall]" \notin ss_region.name
            /\ \/ "[heap]" \in ss_region.name
               \/ "[stack]" \in ss_region.name
               \/ ss_region.name = {}
               \/ "libpython" \in ss_region.name)

\* ----------------------------------------------------------------------
\* The order of the steps of setup_filesystem (isolation.rs).
\* ----------------------------------------------------------------------

\* The place of each step in the order: namespaces, private mount tree,
\* loopback, scratch directory, read-only root, tmpfs, upper and work
\* directories, overlay on /tmp, overlay on the project root.
StepRank ==
    [unshare |-> 1, mount_private |-> 2, setup_loopback |-> 3, create_base |-> 4,
     bind_mount_root |-> 5, remount_root_ro |-> 6, mount_tmpfs |-> 7,
     create_tmp_upper |-> 8, create_tmp_work |-> 8, create_proj_upper |-> 8,
     create_proj_work |-> 8, overlay_tmp |-> 9, overlay_project_root |-> 10]

StepNames == DOMAIN StepRank

\* The steps that create a directory.
DirectoryCreations ==
    {"create_base", "create_tmp_upper", "create_tmp_work", "create_proj_upper",
     "create_proj_work"}

DoneBefore(i) == {jail_done[j] : j \in 1 .. i - 1}

StepsInOrder ==
    /\ \A i \in 1 .. Len(jail_done) : jail_done[i] \in StepNames
    /\ \A i, j \in 1 .. Len(jail_done) : i < j => jail_done[i] # jail_done[j]
    /\ \A i \in 1 .. Len(jail_done) :
           \A s \in StepNames :
               StepRank[s] < StepRank[jail_done[i]] => s \in DoneBefore(i)
    /\ jail_result = "ok" => {jail_done[i] : i \in 1 .. Len(jail_done)} = StepNames

DirectoriesOnWritableGround ==
    \A i \in 1 .. Len(jail_done) :
        jail_done[i] \in DirectoryCreations =>
            \/ "remount_root_ro" \notin DoneBefore(i)
            \/ "mount_tmpfs" \in DoneBefore(i)

\* C37: setup_filesystem performs its steps in the fixed order (namespaces,
\* private mount tree, loopback, scratch directory, root bind-mounted and
\* remounted read-only, tmpfs on the scratch directory, upper and work
\* directories, overlay on /tmp, overlay on the project root); after the
\* first failing step no later step runs; every directory is created either
\* before the read-only remount or after the tmpfs was mounted.
C37_JailStepsInOrder ==
    /\ [](StepsInOrder /\ DirectoriesOnWritableGround)
    /\ [][jail_result = "err" => jail_done' = jail_done]_vars
    /\ [][jail_done' # jail_done =>
              (jail_result = "pending" /\ Len(jail_done') = Len(jail_done) + 1
               /\ SubSeq(jail_done', 1, Len(jail_done)) = jail_done)]_vars

\* The mount of the tmpfs failed after the root was remounted read-only, and
\* the worker has left: nothing after the remount was done.
C37_Witness ==
    /\ jail_result = "err"
    /\ Len(jail_done) > 0 /\ jail_done[Len(jail_done)] = "remount_root_ro"
    /\ w_exited

\* ----------------------------------------------------------------------
\* DebugServer::handle_session (debugger.rs 219-337) next to the signal
\* thread (signals.rs 27-56).
\* ----------------------------------------------------------------------

MaxSessions == 2
MaxSignals == 2

\* The pids handle_session may be given; 0 stands for the entries that are
\* not positive.
DebugPids == {0, 7, 8}

HandledSignals == {"SIGINT", "SIGTERM", "SIGQUIT"}

outsideDebug == <<schedVars, fleetViewVars, guardVars, treeVars, sessVars, jailVars,
                  envVars, protoVars, snapVars, modeVars, logfileVars, wireVars,
                  guardOpVars, relayVars, readerVars, skipVars, faultVars, filterVars,
                  resolveVars>>

\* pause_workers: SIGSTOP to every positive pid but the worker debugged
pause_workers(pids, debug_worker_pid) == {p \in pids : p \notin debug_worker_pid /\ p > 0}

\* resume_workers: SIGCONT to every positive pid
resume_workers(pids) == {p \in pids : p > 0}

\* impl Drop for TerminalManager: restore(), its error ignored
TerminalDrop(mode, term, ok) == IF mode = "Raw" /\ ok THEN "cooked" ELSE term

\* The signal thread with SIGINT treated like SIGTERM
SignalThreadAlways(sig) ==
    /\ sig_count < MaxSignals
    /\ SHUTDOWN_REQUESTED' = TRUE
    /\ sig_last' = sig
    /\ sig_count' = sig_count + 1
    /\ UNCHANGED <<IS_DEBUGGING, dbg_pc, dbg_pids, dbg_target, dbg_term, dbg_mode,
                   dbg_stop_sent, dbg_cont_sent, dbg_sessions, outsideDebug>>

\* One turn of the loop of the signal thread.
SignalThread(sig) ==
    /\ sig_count < MaxSignals
    /\ SHUTDOWN_REQUESTED' =
           IF sig = "SIGINT"
           THEN (IF IS_DEBUGGING THEN SHUTDOWN_REQUESTED ELSE TRUE)
           ELSE TRUE
    /\ sig_last' = sig
    /\ sig_count' = sig_count + 1
    /\ UNCHANGED <<IS_DEBUGGING, dbg_pc, dbg_pids, dbg_target, dbg_term, dbg_mode,
                   dbg_stop_sent, dbg_cont_sent, dbg_sessions, outsideDebug>>

\* 227: IS_DEBUGGING.store(true)
DbgStart(pids, debug_worker_pid) ==
    /\ dbg_pc \in {"idle", "returned_ok", "returned_err"}
    /\ dbg_sessions < MaxSessions
    /\ IS_DEBUGGING' = TRUE
    /\ dbg_pids' = pids
    /\ dbg_target' = debug_worker_pid
    /\ dbg_mode' = "none"
    /\ dbg_stop_sent' = {}
    /\ dbg_cont_sent' = {}
    /\ dbg_sessions' = dbg_sessions + 1
    /\ dbg_pc' = "pause"
    /\ UNCHANGED <<SHUTDOWN_REQUESTED, dbg_term, sig_last, sig_count, outsideDebug>>

\* 230: pause_workers(worker_pids, debug_worker_pid)
DbgPause ==
    /\ dbg_pc = "pause"
    /\ dbg_stop_sent' = pause_workers(dbg_pids, dbg_target)
    /\ dbg_pc' = "terminal_new"
    /\ UNCHANGED <<flagVars, dbg_pids, dbg_target, dbg_term, dbg_mode, dbg_cont_sent,
                   dbg_sessions, sig_last, sig_count, outsideDebug>>

\* 236: TerminalManager::new()?
DbgTerminalNew(ok) ==
    /\ dbg_pc = "terminal_new"
    /\ IF ok
       THEN dbg_mode' = "Cooked" /\ dbg_pc' = "enter_raw"
       ELSE dbg_mode' = dbg_mode /\ dbg_pc' = "returned_err"
    /\ UNCHANGED <<flagVars, dbg_pids, dbg_target, dbg_term, dbg_stop_sent,
                   dbg_cont_sent, dbg_sessions, sig_last, sig_count, outsideDebug>>

\* 237: terminal.enter_raw_mode()?
DbgEnterRaw(ok) ==
    /\ dbg_pc = "enter_raw"
    /\ IF ok
       THEN dbg_term' = "raw" /\ dbg_mode' = "Raw" /\ dbg_pc' = "stream"
       ELSE dbg_term' = dbg_term /\ dbg_mode' = dbg_mode /\ dbg_pc' = "returned_err"
    /\ UNCHANGED <<flagVars, dbg_pids, dbg_target, dbg_stop_sent, dbg_cont_sent,
                   dbg_sessions, sig_last, sig_count, outsideDebug>>

\* 240-245: set_nonblocking(false)? and try_clone()?; on the error the
\* TerminalManager is dropped.
DbgPrepareStream(ok, drop_ok) ==
    /\ dbg_pc = "stream"
    /\ IF ok
       THEN dbg_term' = dbg_term /\ dbg_pc' = "pipe"
       ELSE dbg_term' = TerminalDrop(dbg_mode, dbg_term, drop_ok) /\ dbg_pc' = "returned_err"
    /\ UNCHANGED <<flagVars, dbg_pids, dbg_target, dbg_mode, dbg_stop_sent,
                   dbg_cont_sent, dbg_sessions, sig_last, sig_count, outsideDebug>>

\* 247-317: the two pipes run until the socket closes or stdin ends; the
\* reader thread is joined.
DbgPipeEnds ==
    /\ dbg_pc = "pipe"
    /\ dbg_pc' = "restore"
    /\ UNCHANGED <<flagVars, dbg_pids, dbg_target, dbg_term, dbg_mode, dbg_stop_sent,
                   dbg_cont_sent, dbg_sessions, sig_last, sig_count, outsideDebug>>

\* 320: terminal.restore()?; on the error the TerminalManager is dropped.
DbgRestore(ok, drop_ok) ==
    /\ dbg_pc = "restore"
    /\ IF ok
       THEN dbg_term' = "cooked" /\ dbg_mode' = "Cooked" /\ dbg_pc' = "resume"
       ELSE /\ dbg_term' = TerminalDrop(dbg_mode, dbg_term, drop_ok)
            /\ dbg_mode' = dbg_mode
            /\ dbg_pc' = "returned_err"
    /\ UNCHANGED <<flagVars, dbg_pids, dbg_target, dbg_stop_sent, dbg_cont_sent,
                   dbg_sessions, sig_last, sig_count, outsideDebug>>

\* 323: resume_workers(worker_pids)
DbgResume ==
    /\ dbg_pc = "resume"
    /\ dbg_cont_sent' = resume_workers(dbg_pids)
    /\ dbg_pc' = "clear"
    /\ UNCHANGED <<flagVars, dbg_pids, dbg_target, dbg_term, dbg_mode, dbg_stop_sent,
                   dbg_sessions, sig_last, sig_count, outsideDebug>>

\* 326-330: IS_DEBUGGING.store(false), Ok(())
DbgClear ==
    /\ dbg_pc = "clear"
    /\ IS_DEBUGGING' = FALSE
    /\ dbg_pc' = "returned_ok"
    /\ UNCHANGED <<SHUTDOWN_REQUESTED, dbg_pids, dbg_target, dbg_term, dbg_mode,
                   dbg_stop_sent, dbg_cont_sent, dbg_sessions, sig_last, sig_count,
                   outsideDebug>>

DebugTargets == {{}} \cup {{p} : p \in DebugPids \ {0}}

InitDebug ==
    /\ BeforeFinalIdle /\ FinalIdle

NextDebug ==
    \/ \E sig \in HandledSignals : SignalThread(sig)
    \/ \E pids \in SUBSET DebugPids, target \in DebugTargets : DbgStart(pids, target)
    \/ DbgPause
    \/ \E ok \in BOOLEAN : DbgTerminalNew(ok)
    \/ \E ok \in BOOLEAN : DbgEnterRaw(ok)
    \/ \E ok \in BOOLEAN, drop_ok \in BOOLEAN : DbgPrepareStream(ok, drop_ok)
    \/ DbgPipeEnds
    \/ \E ok \in BOOLEAN, drop_ok \in BOOLEAN : DbgRestore(ok, drop_ok)
    \/ DbgResume
    \/ DbgClear

SpecDebug == InitDebug /\ [][NextDebug]_vars

\* C38: the signal thread sets SHUTDOWN_REQUESTED on SIGINT if and only if
\* IS_DEBUGGING is false when the signal is handled, and always sets it on
\* SIGTERM and SIGQUIT.
C38_SigintSetsShutdownUnlessDebugging ==
    [][sig_count' # sig_count =>
           /\ sig_last' = "SIGINT" =>
                  SHUTDOWN_REQUESTED' = (SHUTDOWN_REQUESTED \/ ~IS_DEBUGGING)
           /\ sig_last' \in {"SIGTERM", "SIGQUIT"} => SHUTDOWN_REQUESTED']_vars

\* A SIGINT was handled during a debug session and left the flag unset.
C38_Witness ==
    /\ sig_last = "SIGINT"
    /\ sig_count > 0
    /\ IS_DEBUGGING
    /\ dbg_pc = "pipe"
    /\ ~SHUTDOWN_REQUESTED

Returned == dbg_pc \in {"returned_ok", "returned_err"}

\* C39: whenever handle_session has returned, with success or with an
\* error, IS_DEBUGGING is false, the terminal is in cooked mode and every
\* worker that was sent SIGSTOP for the session has been sent SIGCONT; the
\* worker being debugged is never sent SIGSTOP.
C39_SessionLeavesNothingBehind ==
    /\ Returned =>
           /\ ~IS_DEBUGGING
           /\ dbg_term = "cooked"
           /\ dbg_stop_sent \subseteq dbg_cont_sent
    /\ dbg_target \cap dbg_stop_sent = {}

\* The same for the sessions that return Ok.
SessionReturningOkLeavesNothingBehind ==
    /\ dbg_pc = "returned_ok" =>
           /\ ~IS_DEBUGGING
           /\ dbg_term = "cooked"
           /\ dbg_stop_sent \subseteq dbg_cont_sent
    /\ dbg_target \cap dbg_stop_sent = {}

\* ----------------------------------------------------------------------
\* Resolver::resolve_test (resolver.rs 178-283) on one test, against a
\* registry of fixtures.
\* ----------------------------------------------------------------------

MaxDeps == 2

\* The names of this model; "tmp_path" is one of PYTEST_BUILTINS.
FixtureNames == {"base", "db", "tmp_path"}

PYTEST_BUILTINS == {"tmp_path"}

is_builtin_fixture(name) == name \in PYTEST_BUILTINS

\* The dependency lists: at most MaxDeps names, none twice.
DepLists ==
    {deps \in UNION {[1 .. n -> FixtureNames] : n \in 0 .. MaxDeps} :
         \A i, j \in 1 .. Len(deps) : i # j => deps[i] # deps[j]}

NoFixture == [defined |-> FALSE, dependencies |-> << >>]

\* What lookup(name, module_path, test_name) returns for the names, for the
\* module and the class of the test at hand.
Registries ==
    [FixtureNames -> {NoFixture} \cup {[defined |-> TRUE, dependencies |-> deps] :
                                         deps \in DepLists}]

SeqRange(q) == {q[i] : i \in 1 .. Len(q)}

ResolveStart == [resolved |-> << >>, visited |-> {}, stack |-> << >>, err |-> "none"]

\* resolve_fixture, and the loop over the dependencies of a fixture.
RECURSIVE resolve_fixture(_, _, _)
RECURSIVE ResolveEach(_, _, _, _)
resolve_fixture(name, registry, st) ==
    IF name \in st.visited THEN st
    ELSE IF name \in SeqRange(st.stack)
    THEN [st EXCEPT !.stack = Append(@, name), !.err = "CyclicDependency"]
    ELSE IF is_builtin_fixture(name)
    THEN [st EXCEPT !.visited = @ \cup {name}]
    ELSE IF ~registry[name].defined
    THEN [st EXCEPT !.err = "MissingFixture"]
    ELSE LET pushed == [st EXCEPT !.stack = Append(@, name)]
             after == ResolveEach(registry[name].dependencies, 1, registry, pushed)
         IN  IF after.err # "none" THEN after
             ELSE [after EXCEPT !.stack = SubSeq(@, 1, Len(@) - 1),
                                !.visited = @ \cup {name},
                                !.resolved = Append(@, name)]

ResolveEach(deps, i, registry, st) ==
    IF i > Len(deps) \/ st.err # "none" THEN st
    ELSE ResolveEach(deps, i + 1, registry, resolve_fixture(deps[i], registry, st))

\* resolve_test: the direct dependencies that are not parametrized
\* arguments, in order.
resolve_test(test, registry) ==
    LET wanted == SelectSeq(test.dependencies, LAMBDA d : d \notin test.parametrized_args)
        st == ResolveEach(wanted, 1, registry, ResolveStart)
    IN  [done |-> TRUE, ok |-> st.err = "none",
         fixtures |-> IF st.err = "none" THEN st.resolved ELSE << >>]

\* resolve_all pushes the test to runnable on Ok and to errors on Err.
ResolveTest ==
    /\ ~rs_out.done
    /\ rs_out' = resolve_test(rs_test, rs_registry)
    /\ UNCHANGED <<rs_registry, rs_test>>
    /\ UNCHANGED <<beforeFinal, faultVars, filterVars, debugVars>>

InitResolve ==
    /\ BeforeFinalIdle /\ FaultsIdle /\ FilterIdle /\ DebugIdle
    /\ rs_registry \in Registries
    /\ \E deps \in DepLists, args \in SUBSET {"db"} :
           rs_test = [dependencies |-> deps, parametrized_args |-> args]
    /\ rs_out = NotResolved

NextResolve == ResolveTest

SpecResolve == InitResolve /\ [][NextResolve]_vars

\* The fixtures the user defined.
UserDefined == {n \in FixtureNames : rs_registry[n].defined}

\* The names reachable from a set of names through the dependencies of the
\* fixtures the user defined.
RECURSIVE ReachableFrom(_, _)
ReachableFrom(names, k) ==
    IF k = 0 THEN names
    ELSE ReachableFrom(
             names \cup UNION {SeqRange(rs_registry[n].dependencies) : n \in names \cap UserDefined},
             k - 1)

\* The dependencies of the test that are fixtures.
TestFixtureDeps == SeqRange(rs_test.dependencies) \ rs_test.parametrized_args

Reachable == ReachableFrom(TestFixtureDeps, Cardinality(FixtureNames))

ListedOnceInOrder(expected) ==
    LET fixtures == rs_out.fixtures
    IN  /\ SeqRange(fixtures) = expected
        /\ \A i, j \in 1 .. Len(fixtures) : i # j => fixtures[i] # fixtures[j]
        /\ \A i \in 1 .. Len(fixtures) :
               \A d \in SeqRange(rs_registry[fixtures[i]].dependencies) \cap UserDefined :
                   \E j \in 1 .. i - 1 : fixtures[j] = d

\* C40: for every test returned as runnable, the fixtures list contains each
\* user-defined fixture reachable from the test's dependencies exactly once,
\* and every fixture appears after all the fixtures it depends on.
C40_FixturesOnceDependenciesFirst ==
    (rs_out.done /\ rs_out.ok) => ListedOnceInOrder(Reachable \cap UserDefined)

\* The same, with the user's fixtures that carry the name of a pytest
\* builtin left out, and what is reachable only through them.
FixturesOnceUnlessNamedLikeBuiltin ==
    (rs_out.done /\ rs_out.ok /\ UserDefined \cap PYTEST_BUILTINS = {}) =>
        ListedOnceInOrder(Reachable \cap UserDefined)

====
